---- MODULE Spec2Model ----
(***************************************************************************)
(* Slugledger: the event ledger Worker of src/src/index.ts (the module that *)
(* starts at line 397, the one that is exported last).  Requests pass the   *)
(* API-key middleware and are then handled by their route handler; the D1   *)
(* table `events` and the wall clock are the shared state.  A handler runs  *)
(* atomically between two awaits, so each await is a step boundary.         *)
(*                                                                         *)
(* Text (JavaScript strings, SQL TEXT) is a sequence of one-character      *)
(* strings.  JSON values are tagged records.                               *)
(***************************************************************************)
EXTENDS Integers, Sequences, FiniteSets, TLC

(* ------------------------------ bounds -------------------------------- *)

\* Number of rows of a stored table that is queried.
MaxRows == 3

\* Number of requests that are sent (and may be in flight together).
MaxReq == 2

\* The wall clock runs from 0 to MaxClock milliseconds after ClockBase.
MaxClock == 1

(* ------------------------------- text --------------------------------- *)

\* SQL NULL / a JavaScript undefined where a text is expected.  Every real
\* text is made of one-character strings, so no text equals NullText.
NullText == <<"NULL">>

\* String.prototype.trim strips white space; these are the white-space
\* characters the requests of the model use.
isWhitespace(c) == c \in {" ", "\t", "\n", "\r"}

RECURSIVE trimStart(_)
trimStart(s) ==
    IF s # <<>> /\ isWhitespace(Head(s)) THEN trimStart(Tail(s)) ELSE s

RECURSIVE trimEnd(_)
trimEnd(s) ==
    IF s # <<>> /\ isWhitespace(s[Len(s)])
    THEN trimEnd(SubSeq(s, 1, Len(s) - 1))
    ELSE s

trim(s) == trimEnd(trimStart(s))

Digits == <<"0", "1", "2", "3", "4", "5", "6", "7", "8", "9">>

isDigit(c) == \E d \in 1..10 : Digits[d] = c

digitValue(c) == (CHOOSE d \in 1..10 : Digits[d] = c) - 1

\* Number.prototype.toString for a natural number.
RECURSIVE NatToText(_)
NatToText(n) ==
    IF n < 10 THEN <<Digits[n + 1]>>
    ELSE NatToText(n \div 10) \o <<Digits[(n % 10) + 1]>>

\* String.prototype.padStart(width, "0") of a natural number.
RECURSIVE padStart(_, _)
padStart(s, width) == IF Len(s) >= width THEN s ELSE padStart(<<"0">> \o s, width)

(* ------------------------------- JSON --------------------------------- *)

\* A JavaScript value as JSON.parse yields it (and undefined, for a field
\* that is absent).  An object is its members in order, each <<key, value>>.
\* Each type keeps its content in a field of its own.
Undefined == [t |-> "undefined"]
JNull == [t |-> "null"]
JBool(b) == [t |-> "bool", b |-> b]
JNum(n) == [t |-> "num", n |-> n]
\* The number Infinity: what JSON.parse (and so c.req.json()) yields for a
\* number literal beyond the range of a double, such as 1e400.
JInfinity == [t |-> "infinity"]
JStr(s) == [t |-> "str", s |-> s]
JObj(members) == [t |-> "obj", m |-> members]
JArr(items) == [t |-> "arr", a |-> items]

\* typeof x === 'string'
isString(x) == x.t = "str"

RECURSIVE quoteChars(_)
quoteChars(s) ==
    IF s = <<>> THEN <<>>
    ELSE (IF Head(s) \in {"\"", "\\"} THEN <<"\\", Head(s)>> ELSE <<Head(s)>>)
         \o quoteChars(Tail(s))

quote(s) == <<"\"">> \o quoteChars(s) \o <<"\"">>

\* JSON.stringify(value).  undefined has no JSON text: the result is
\* undefined (NullText).  Inside an object a member whose value is undefined
\* is left out; inside an array it is written null.
RECURSIVE JSONstringify(_)
RECURSIVE stringifyMembers(_, _)
RECURSIVE stringifyItems(_, _)
JSONstringify(x) ==
    CASE x.t = "undefined" -> NullText
      [] x.t = "null" -> <<"n", "u", "l", "l">>
      [] x.t = "bool" ->
            IF x.b THEN <<"t", "r", "u", "e">> ELSE <<"f", "a", "l", "s", "e">>
      [] x.t = "num" -> NatToText(x.n)
      [] x.t = "infinity" -> <<"n", "u", "l", "l">>
      [] x.t = "str" -> quote(x.s)
      [] x.t = "obj" -> <<"{">> \o stringifyMembers(x.m, TRUE) \o <<"}">>
      [] x.t = "arr" -> <<"[">> \o stringifyItems(x.a, TRUE) \o <<"]">>

stringifyMembers(ms, first) ==
    IF ms = <<>> THEN <<>>
    ELSE IF Head(ms)[2].t = "undefined" THEN stringifyMembers(Tail(ms), first)
    ELSE (IF first THEN <<>> ELSE <<",">>)
         \o quote(Head(ms)[1]) \o <<":">> \o JSONstringify(Head(ms)[2])
         \o stringifyMembers(Tail(ms), FALSE)

stringifyItems(xs, first) ==
    IF xs = <<>> THEN <<>>
    ELSE (IF first THEN <<>> ELSE <<",">>)
         \o (IF Head(xs).t = "undefined" THEN <<"n", "u", "l", "l">>
             ELSE JSONstringify(Head(xs)))
         \o stringifyItems(Tail(xs), FALSE)

\* The character at position i of s, "" past the end.
charAt(s, i) == IF i \in 1..Len(s) THEN s[i] ELSE ""

RECURSIVE skipWs(_, _)
skipWs(s, i) == IF isWhitespace(charAt(s, i)) THEN skipWs(s, i + 1) ELSE i

startsWith(s, i, lit) ==
    /\ i + Len(lit) - 1 <= Len(s)
    /\ SubSeq(s, i, i + Len(lit) - 1) = lit

ParseFail == [ok |-> FALSE, val |-> Undefined, next |-> 0]

ParseOk(x, i) == [ok |-> TRUE, val |-> x, next |-> i]

\* The characters of a JSON string literal from position j, the opening quote
\* consumed.  Of the escapes only \" \\ and \/ are read: the texts of the
\* model hold no control character and no \u escape.
RECURSIVE parseChars(_, _, _)
parseChars(s, j, acc) ==
    LET c == charAt(s, j) IN
    IF c = "" THEN ParseFail
    ELSE IF c = "\"" THEN ParseOk(acc, j + 1)
    ELSE IF c = "\\"
         THEN IF charAt(s, j + 1) \in {"\"", "\\", "/"}
              THEN parseChars(s, j + 2, Append(acc, charAt(s, j + 1)))
              ELSE ParseFail
    ELSE parseChars(s, j + 1, Append(acc, c))

parseString(s, i) ==
    IF charAt(s, i) = "\"" THEN parseChars(s, i + 1, <<>>) ELSE ParseFail

\* The digits of a JSON number from position j.  Numbers of the model are
\* integers: no fraction and no exponent is read.
RECURSIVE parseDigits(_, _, _)
parseDigits(s, j, acc) ==
    IF isDigit(charAt(s, j))
    THEN parseDigits(s, j + 1, 10 * acc + digitValue(charAt(s, j)))
    ELSE ParseOk(acc, j)

parseNumber(s, i) ==
    LET neg == charAt(s, i) = "-"
        j == IF neg THEN i + 1 ELSE i
        r == parseDigits(s, j, 0)
    IN  IF ~isDigit(charAt(s, j)) THEN ParseFail
        ELSE IF charAt(s, j) = "0" /\ isDigit(charAt(s, j + 1)) THEN ParseFail
        ELSE ParseOk(JNum(IF neg THEN 0 - r.val ELSE r.val), r.next)

\* JSON.parse's value grammar: a recursive descent from position i.
RECURSIVE parseValue(_, _)
RECURSIVE parseMembers(_, _, _)
RECURSIVE parseItems(_, _, _)
parseValue(s, i) ==
    LET c == charAt(s, i) IN
    IF startsWith(s, i, <<"n", "u", "l", "l">>) THEN ParseOk(JNull, i + 4)
    ELSE IF startsWith(s, i, <<"t", "r", "u", "e">>) THEN ParseOk(JBool(TRUE), i + 4)
    ELSE IF startsWith(s, i, <<"f", "a", "l", "s", "e">>) THEN ParseOk(JBool(FALSE), i + 5)
    ELSE IF c = "\""
         THEN LET r == parseString(s, i) IN
              IF r.ok THEN ParseOk(JStr(r.val), r.next) ELSE ParseFail
    ELSE IF c = "-" \/ isDigit(c) THEN parseNumber(s, i)
    ELSE IF c = "{"
         THEN LET j == skipWs(s, i + 1) IN
              IF charAt(s, j) = "}" THEN ParseOk(JObj(<<>>), j + 1)
              ELSE parseMembers(s, j, <<>>)
    ELSE IF c = "["
         THEN LET j == skipWs(s, i + 1) IN
              IF charAt(s, j) = "]" THEN ParseOk(JArr(<<>>), j + 1)
              ELSE parseItems(s, j, <<>>)
    ELSE ParseFail

parseMembers(s, i, acc) ==
    LET k == parseString(s, i) IN
    IF ~k.ok THEN ParseFail
    ELSE LET c == skipWs(s, k.next) IN
         IF charAt(s, c) # ":" THEN ParseFail
         ELSE LET x == parseValue(s, skipWs(s, c + 1)) IN
              IF ~x.ok THEN ParseFail
              ELSE LET d == skipWs(s, x.next)
                       got == Append(acc, <<k.val, x.val>>)
                   IN  IF charAt(s, d) = "}" THEN ParseOk(JObj(got), d + 1)
                       ELSE IF charAt(s, d) = ","
                            THEN parseMembers(s, skipWs(s, d + 1), got)
                       ELSE ParseFail

parseItems(s, i, acc) ==
    LET x == parseValue(s, i) IN
    IF ~x.ok THEN ParseFail
    ELSE LET d == skipWs(s, x.next)
             got == Append(acc, x.val)
         IN  IF charAt(s, d) = "]" THEN ParseOk(JArr(got), d + 1)
             ELSE IF charAt(s, d) = ","
                  THEN parseItems(s, skipWs(s, d + 1), got)
             ELSE ParseFail

\* JSON.parse(text): ok is FALSE where JSON.parse throws a SyntaxError.
JSONparse(text) ==
    LET r == parseValue(text, skipWs(text, 1)) IN
    IF r.ok /\ skipWs(text, r.next) = Len(text) + 1 THEN r ELSE ParseFail

\* SQLite's json_valid(text).
json_valid(text) == JSONparse(text).ok

(* ------------------------- clock and identifiers ----------------------- *)

\* The clock of the model counts milliseconds from 2024-01-01T00:00:00.000Z
\* and stays within the first minute.
ClockPrefix == <<"2", "0", "2", "4", "-", "0", "1", "-", "0", "1", "T", "0", "0", ":", "0", "0", ":">>

\* new Date(ms).toISOString(): YYYY-MM-DDTHH:mm:ss.sssZ
toISOString(ms) ==
    ClockPrefix \o padStart(NatToText(ms \div 1000), 2) \o <<".">>
                \o padStart(NatToText(ms % 1000), 3) \o <<"Z">>

\* The k-th identifier that crypto.randomUUID() (or the Math.random
\* fallback) returns.  A version-4 UUID has 122 random bits: the generator
\* is taken never to return an identifier that was returned or stored
\* before, so the k-th identifier differs from all earlier ones.
uuid(k) == <<"u", "u", "i", "d", "-">> \o NatToText(k)

\* Mutant: a generator that returns the same identifier every time.
generateEventIdRepeating(k) == uuid(1)

generateEventId(k) == uuid(k)

(* ------------------------- API-key middleware -------------------------- *)

\* A JavaScript string used as a condition: undefined and "" are falsy.
truthy(text) == text # NullText /\ text # <<>>

BearerPrefix == <<"B", "e", "a", "r", "e", "r", " ">>

\* The key apiKeyAuth reads from the request headers.
providedKey(authHeader, apiKeyHeader) ==
    IF truthy(authHeader) /\ startsWith(authHeader, 1, BearerPrefix)
    THEN SubSeq(authHeader, Len(BearerPrefix) + 1, Len(authHeader))
    ELSE IF truthy(apiKeyHeader) THEN apiKeyHeader
    ELSE NullText

\* apiKeyAuth that compares a key only when the request has one.
apiKeyAuthKeyOptional(path, expectedApiKey, authHeader, apiKeyHeader) ==
    IF path \in {"/docs", "/openapi.json"} THEN TRUE
    ELSE IF ~truthy(expectedApiKey) THEN TRUE
    ELSE LET key == providedKey(authHeader, apiKeyHeader) IN
         ~truthy(key) \/ key = expectedApiKey

\* apiKeyAuth that asks for the key also when none is configured.
apiKeyAuthAlwaysChecks(path, expectedApiKey, authHeader, apiKeyHeader) ==
    IF path \in {"/docs", "/openapi.json"} THEN TRUE
    ELSE LET key == providedKey(authHeader, apiKeyHeader) IN
         ~(~truthy(key) \/ key # expectedApiKey)

\* apiKeyAuth: TRUE when next() is called, FALSE when 401 is answered.
apiKeyAuth(path, expectedApiKey, authHeader, apiKeyHeader) ==
    IF path \in {"/docs", "/openapi.json"} THEN TRUE
    ELSE IF ~truthy(expectedApiKey) THEN TRUE
    ELSE LET key == providedKey(authHeader, apiKeyHeader) IN
         ~(~truthy(key) \/ key # expectedApiKey)

(* ----------------------------- D1: events ------------------------------ *)

\* A result of D1PreparedStatement.run(): resolved with success TRUE or
\* FALSE, or rejected (thrown TRUE) with an Error that has a message.
RunOk == [thrown |-> FALSE, success |-> TRUE, message |-> "none"]
RunUnsuccessful == [thrown |-> FALSE, success |-> FALSE, message |-> "none"]
RunThrow(msg) == [thrown |-> TRUE, success |-> FALSE, message |-> msg]
\* run() resolved with success false and the reason in the result's error
\* field (D1Result.error).
RunFailed(msg) == [thrown |-> FALSE, success |-> FALSE, message |-> msg]
NotRun == [thrown |-> FALSE, success |-> FALSE, message |-> "not run"]

MsgUnique == "D1_ERROR: UNIQUE constraint failed: events.id"
MsgNotNull == "D1_ERROR: NOT NULL constraint failed"
MsgCheck == "D1_ERROR: CHECK constraint failed: json_valid(payload)"
MsgOther == "D1_ERROR: Network connection lost"
MsgSyntax == "Unexpected token in JSON"
MsgTypeError == "Cannot read properties of null (reading 'id')"

\* error.message.includes('UNIQUE constraint failed')
includesUniqueConstraintFailed(msg) == msg = MsgUnique

hasId(table, id) == \E i \in 1..Len(table) : table[i].id = id

\* Mutant: INSERT OR REPLACE, which drops the row that has the id.
D1InsertOrReplaceEvent(table, id, ts, payload) ==
    [result |-> RunOk,
     table |-> Append(SelectSeq(table, LAMBDA row : row.id # id),
                      [id |-> id, ts |-> ts, payload |-> payload])]

\* INSERT INTO events (id, ts, payload) VALUES (?, ?, ?) against the schema
\*   id TEXT PRIMARY KEY, ts TEXT NOT NULL,
\*   payload TEXT NOT NULL CHECK (json_valid(payload))
\* The result of run() and the table after it.
D1InsertEvent(table, id, ts, payload) ==
    IF ts = NullText \/ payload = NullText
    THEN [result |-> RunThrow(MsgNotNull), table |-> table]
    ELSE IF ~json_valid(payload)
    THEN [result |-> RunThrow(MsgCheck), table |-> table]
    ELSE IF hasId(table, id)
    THEN [result |-> RunThrow(MsgUnique), table |-> table]
    ELSE [result |-> RunOk,
          table |-> Append(table, [id |-> id, ts |-> ts, payload |-> payload])]

(* --------------------------- POST /events ------------------------------ *)

KeyId == <<"i", "d">>
KeyTs == <<"t", "s">>
KeyPayload == <<"p", "a", "y", "l", "o", "a", "d">>

\* The request body as c.req.json() yields it; Malformed is a body that is
\* not JSON text (c.req.json() rejects with a SyntaxError).
Malformed == [t |-> "malformed"]

\* body.key for a parsed body other than null: the member of an object,
\* undefined for a number, a string, a boolean or an array.
field(body, key) ==
    IF body.t = "obj" /\ \E i \in 1..Len(body.m) : body.m[i][1] = key
    THEN body.m[CHOOSE i \in 1..Len(body.m) :
                  /\ body.m[i][1] = key
                  /\ \A j \in (i + 1)..Len(body.m) : body.m[j][1] # key][2]
    ELSE Undefined

\* Mutant: the check without the trim.
idIsInvalidUntrimmed(id) == ~isString(id) \/ Len(id.s) = 0

\* The check of a supplied id:
\*   typeof body.id !== 'string' || body.id.trim().length === 0
idIsInvalid(id) == ~isString(id) \/ Len(trim(id.s)) = 0

\* Mutant: only the leading white space is removed.
suppliedEventIdTrimStart(id) == trimStart(id.s)

\* Mutant: the id is stored as it was sent.
suppliedEventIdUntrimmed(id) == id.s

\* eventId = body.id.trim()
suppliedEventId(id) == trim(id.s)

\* body.payload === undefined
payloadIsMissing(payload) == payload = Undefined

\* Mutant: a ts string in the body is taken as the event's ts.
eventTimestampFromBody(body, now) ==
    IF isString(field(body, KeyTs)) THEN field(body, KeyTs).s ELSE toISOString(now)

\* const timestamp = new Date().toISOString(): the body is not read.
eventTimestamp(body, now) == toISOString(now)

\* Mutant: a null payload is bound as SQL NULL.
encodePayloadNullAsNull(payload) ==
    IF payload = JNull THEN NullText ELSE JSONstringify(payload)

\* payloadJson = JSON.stringify(body.payload); the catch branch is for a
\* value JSON.stringify throws on, which c.req.json() never yields.
encodePayload(payload) == JSONstringify(payload)

\* The handler from the resolved body to stmt.run(), at clock value now and
\* with k identifiers generated so far.  status 0: the INSERT is issued with
\* (eventId, timestamp, payloadJson); otherwise the response status.
Rejected(status, generated) ==
    [status |-> status, eventId |-> NullText, timestamp |-> NullText,
     payloadJson |-> NullText, generated |-> generated]

postEventsBody(body, now, k) ==
    IF body = Malformed THEN Rejected(500, FALSE)
    ELSE IF body = JNull THEN Rejected(500, FALSE)
    ELSE LET id == field(body, KeyId)
             payload == field(body, KeyPayload)
             generated == id = Undefined
         IN  IF id # Undefined /\ idIsInvalid(id) THEN Rejected(400, FALSE)
             ELSE IF payloadIsMissing(payload) THEN Rejected(400, generated)
             ELSE [status |-> 0,
                   eventId |-> IF generated THEN generateEventId(k + 1)
                               ELSE suppliedEventId(id),
                   timestamp |-> eventTimestamp(body, now),
                   payloadJson |-> encodePayload(payload),
                   generated |-> generated]

\* Mutant: the catch block without the UNIQUE-constraint branch.
postEventsStatusNoConflict(result) ==
    IF result.thrown \/ ~result.success THEN 500 ELSE 201

\* Mutant: the handler without the check of result.success.
postEventsStatusUnchecked(result) ==
    IF result.thrown
    THEN IF includesUniqueConstraintFailed(result.message) THEN 409 ELSE 500
    ELSE 201

\* The handler after stmt.run() has settled.
postEventsStatus(result) ==
    IF result.thrown
    THEN IF includesUniqueConstraintFailed(result.message) THEN 409 ELSE 500
    ELSE IF ~result.success THEN 500
    ELSE 201

(* ---------------------------- GET /events ------------------------------ *)

\* The characters of the model in code-point order: SQLite compares TEXT
\* with memcmp under the default BINARY collation.
Ascii ==
    <<"\t", "\n", "\r", " ", "\"", "+", ",", "-", ".", "/",
      "0", "1", "2", "3", "4", "5", "6", "7", "8", "9", ":",
      "T", "Z", "[", "\\", "]",
      "a", "b", "c", "d", "e", "f", "g", "h", "i", "j", "k", "l", "m",
      "n", "o", "p", "q", "r", "s", "t", "u", "v", "w", "x", "y", "z",
      "{", "}">>

charCode(c) == CHOOSE i \in 1..Len(Ascii) : Ascii[i] = c

\* a < b as SQL TEXT values.
RECURSIVE textLess(_, _)
textLess(a, b) ==
    IF b = <<>> THEN FALSE
    ELSE IF a = <<>> THEN TRUE
    ELSE IF Head(a) = Head(b) THEN textLess(Tail(a), Tail(b))
    ELSE charCode(Head(a)) < charCode(Head(b))

\* Number.parseInt(text, 10): leading white space, an optional sign, then
\* the longest run of digits; NaN when there is no digit.
parseInt(text) ==
    LET i == skipWs(text, 1)
        signed == charAt(text, i) \in {"+", "-"}
        j == IF signed THEN i + 1 ELSE i
        r == parseDigits(text, j, 0)
    IN  IF ~isDigit(charAt(text, j)) THEN [nan |-> TRUE, n |-> 0]
        ELSE [nan |-> FALSE, n |-> IF charAt(text, i) = "-" THEN 0 - r.val ELSE r.val]

\* s has the shape of pattern, where "d" in the pattern stands for a digit.
matches(s, pattern) ==
    /\ Len(s) = Len(pattern)
    /\ \A i \in 1..Len(s) :
          IF pattern[i] = "d" THEN isDigit(s[i]) ELSE s[i] = pattern[i]

number2(s, i) == 10 * digitValue(s[i]) + digitValue(s[i + 1])

IsoDate == <<"d", "d", "d", "d", "-", "d", "d", "-", "d", "d">>
IsoMinutes == IsoDate \o <<"T", "d", "d", ":", "d", "d">>
IsoSeconds == IsoMinutes \o <<":", "d", "d">>
IsoMillis == IsoSeconds \o <<".", "d", "d", "d">>
IsoZones == {<<"Z">>, <<"+", "d", "d", ":", "d", "d">>, <<"-", "d", "d", ":", "d", "d">>}

\* The ISO-8601 forms Date.parse reads (the date-time string format of
\* ECMAScript): a date, or a date and a time to the minute, second or
\* millisecond with Z or a numeric offset (a time without a zone is local
\* time).
isDateTimeString(value) ==
    LET dateOk == /\ number2(value, 6) \in 1..12
                  /\ number2(value, 9) \in 1..31
        timeOk == /\ number2(value, 12) \in 0..23
                  /\ number2(value, 15) \in 0..59
    IN  \/ matches(value, IsoDate) /\ dateOk
        \/ \E form \in {IsoMinutes, IsoSeconds, IsoMillis} :
           \E zone \in IsoZones \cup {<<>>} :
              /\ matches(value, form \o zone)
              /\ dateOk /\ timeOk
              /\ Len(form) >= Len(IsoSeconds) => number2(value, 18) \in 0..59

\* A form outside ISO 8601 that Date.parse of V8 (the engine of Workers)
\* reads with its legacy parser: a date written with slashes, YYYY/MM/DD.
LegacyDate == <<"d", "d", "d", "d", "/", "d", "d", "/", "d", "d">>

isLegacyDateString(value) ==
    /\ matches(value, LegacyDate)
    /\ number2(value, 6) \in 1..12
    /\ number2(value, 9) \in 1..31

\* Number.isNaN(Date.parse(value))
DateParseIsNaN(value) == ~(isDateTimeString(value) \/ isLegacyDateString(value))

\* isIsoTimestamp = (value) => !Number.isNaN(Date.parse(value))
isIsoTimestamp(value) == ~DateParseIsNaN(value)

\* Mutant: the limit is bound as parsed, without Math.min(parsed, 500).
getEventsValidateUnclamped(q) ==
    LET parsed == parseInt(q.limit) IN
    IF q.limit # NullText /\ (parsed.nan \/ parsed.n <= 0)
    THEN [status |-> 400, limit |-> 0]
    ELSE IF truthy(q.after) /\ ~isIsoTimestamp(q.after)
    THEN [status |-> 400, limit |-> 0]
    ELSE IF truthy(q.before) /\ ~isIsoTimestamp(q.before)
    THEN [status |-> 400, limit |-> 0]
    ELSE [status |-> 0, limit |-> IF q.limit = NullText THEN 100 ELSE parsed.n]

\* The query parameters of a request; NullText for one that is absent.
\* The validation of GET /events: the status answered before any read
\* (400), or 0 with the effective limit.
getEventsValidate(q) ==
    LET parsed == parseInt(q.limit) IN
    IF q.limit # NullText /\ (parsed.nan \/ parsed.n <= 0)
    THEN [status |-> 400, limit |-> 0]
    ELSE IF truthy(q.after) /\ ~isIsoTimestamp(q.after)
    THEN [status |-> 400, limit |-> 0]
    ELSE IF truthy(q.before) /\ ~isIsoTimestamp(q.before)
    THEN [status |-> 400, limit |-> 0]
    ELSE [status |-> 0,
          limit |-> IF q.limit = NullText THEN 100
                    ELSE IF parsed.n < 500 THEN parsed.n ELSE 500]

\* Mutant: bounds that include the instant itself (ts >= ?, ts <= ?).
rowMatchesInclusive(row, q) ==
    /\ truthy(q.id) => row.id = q.id
    /\ truthy(q.after) => ~textLess(row.ts, q.after)
    /\ truthy(q.before) => ~textLess(q.before, row.ts)

\* The WHERE clause the handler builds: a condition for each parameter that
\* is truthy, joined by AND.
rowMatches(row, q) ==
    /\ truthy(q.id) => row.id = q.id
    /\ truthy(q.after) => textLess(q.after, row.ts)
    /\ truthy(q.before) => textLess(row.ts, q.before)

\* Mutant: ORDER BY ts, ascending.
AscOrders(rows) ==
    {p \in [1..Len(rows) -> 1..Len(rows)] :
        /\ \A i, j \in 1..Len(rows) : i # j => p[i] # p[j]
        /\ \A i, j \in 1..Len(rows) :
              i < j => ~textLess(rows[p[j]].ts, rows[p[i]].ts)}

\* ORDER BY ts DESC: the orders of rows SQLite may return (rows with equal
\* ts in either order), as permutations of the rows' positions.
DescOrders(rows) ==
    {p \in [1..Len(rows) -> 1..Len(rows)] :
        /\ \A i, j \in 1..Len(rows) : i # j => p[i] # p[j]
        /\ \A i, j \in 1..Len(rows) :
              i < j => ~textLess(rows[p[i]].ts, rows[p[j]].ts)}

\* SELECT * FROM events [WHERE ...] ORDER BY ts DESC LIMIT ?, with the
\* order p of the matching rows.
D1SelectEvents(table, q, limit, p) ==
    LET rows == SelectSeq(table, LAMBDA row : rowMatches(row, q))
        n == IF limit < Len(rows) THEN limit ELSE Len(rows)
    IN  [i \in 1..n |-> rows[p[i]]]

\* The event of the response for a row: the payload text is decoded, and
\* kept as a string when JSON.parse throws.
decodeEvent(row) ==
    [id |-> row.id, ts |-> row.ts,
     payload |-> IF truthy(row.payload)
                 THEN LET r == JSONparse(row.payload) IN
                      IF r.ok THEN r.val ELSE JStr(row.payload)
                 ELSE JNull]

(* ------------------------------ requests ------------------------------- *)

Slots == 1..MaxReq

\* The key of the deployment, and the header values requests carry.
TheKey == <<"k">>
ApiKeys == {NullText, TheKey}
AuthHeaders == {NullText, BearerPrefix \o TheKey, BearerPrefix \o <<"x">>}
ApiKeyHeaders == {NullText, TheKey}

\* What a client may send as the ts field of a body.
ClientTs == <<"2", "0", "2", "0", "-", "0", "5", "-", "0", "5">>

AnEvent == JObj(<< <<(<<"t">>), JStr(<<"x">>)>> >>)

IdFields ==
    {Undefined, JStr(<<"a">>), JStr(<<" ", "a", "\t">>), JStr(<<" ">>), JNum(5)}

PayloadFields == {JNull, JBool(FALSE), JNum(0), JStr(<<>>), AnEvent}

\* The object with the members that are present, in the order id, ts, payload.
bodyObject(id, ts, payload) ==
    JObj(SelectSeq(<< <<KeyId, id>>, <<KeyTs, ts>>, <<KeyPayload, payload>> >>,
                   LAMBDA member : member[2].t # "undefined"))

\* Bodies that differ in their id: text that is not JSON, JSON that is no
\* object, and every id with and without a payload.
Bodies ==
    {Malformed, JNull, JNum(5)}
    \cup {bodyObject(id, Undefined, payload) :
            id \in IdFields, payload \in {Undefined, AnEvent}}

\* Bodies that differ in their payload and in their ts field.
PayloadBodies ==
    {bodyObject(JStr(<<"a">>), Undefined, payload) :
        payload \in PayloadFields \cup {Undefined}}
    \cup {bodyObject(id, JStr(ClientTs), AnEvent) : id \in {Undefined, JStr(<<"a">>)}}
    \cup {bodyObject(Undefined, Undefined, AnEvent)}

\* The bodies of clients that send well-formed events.
ValidBodies ==
    {bodyObject(id, Undefined, AnEvent) : id \in {Undefined, JStr(<<"a">>)}}

NoQuery == [id |-> NullText, after |-> NullText, before |-> NullText, limit |-> NullText]

Queries ==
    [id : {NullText, <<"a">>, uuid(1)},
     after : {NullText, toISOString(0)},
     before : {NullText},
     limit : {NullText, <<"1">>, <<"0">>}]

VARIABLES events, clock, generatedIds, API_KEY, req, jobs, R2

vars == <<events, clock, generatedIds, API_KEY, req, jobs, R2>>

\* A request that has not been sent.  A request keeps what it was sent
\* (body, query), what its handler computed, and what it was answered.
Idle ==
    [route |-> "none", pc |-> "idle", body |-> Undefined, now |-> 0,
     eventId |-> NullText, timestamp |-> NullText, payloadJson |-> NullText,
     generated |-> FALSE, result |-> NotRun, status |-> 0, respId |-> NullText,
     query |-> NoQuery, limit |-> 0, respEvents |-> <<>>, sql |-> NullText,
     method |-> "none", path |-> "none",
     authHeader |-> NullText, apiKeyHeader |-> NullText,
     r2Key |-> NullText, dataJson |-> NullText, customMetadata |-> <<>>,
     statusCode |-> Undefined, statusMessage |-> Undefined,
     metadataJson |-> NullText, lastRowId |-> 0, respRuns |-> <<>>]

Init ==
    /\ events = <<>>
    /\ clock = 0
    /\ generatedIds = 0
    /\ API_KEY \in ApiKeys
    /\ jobs = <<>>
    /\ R2 = {}
    /\ req = [r \in Slots |-> Idle]

\* Date.now() advances.
Tick ==
    /\ clock < MaxClock
    /\ clock' = clock + 1
    /\ UNCHANGED <<events, generatedIds, API_KEY, req, jobs, R2>>

\* Request r can be sent: requests are numbered in the order of arrival.
canArrive(r) ==
    /\ req[r].pc = "idle"
    /\ r > 1 => req[r - 1].pc # "idle"

\* apiKeyAuth answers 401: the route handler does not run.
Unauthorized(r) ==
    /\ canArrive(r)
    /\ \E authHeader \in AuthHeaders, apiKeyHeader \in ApiKeyHeaders :
          /\ ~apiKeyAuth("/events", API_KEY, authHeader, apiKeyHeader)
          /\ req' = [req EXCEPT ![r] = [@ EXCEPT !.pc = "done", !.status = 401]]
    /\ UNCHANGED <<events, clock, generatedIds, API_KEY, jobs, R2>>

\* POST /events with a body among bodies: apiKeyAuth calls the handler,
\* which runs from the body to the await of stmt.run(), or to the response
\* of a request it rejects.
PostEventsFrom(r, bodies) ==
    /\ canArrive(r)
    /\ \E authHeader \in AuthHeaders, apiKeyHeader \in ApiKeyHeaders :
          apiKeyAuth("/events", API_KEY, authHeader, apiKeyHeader)
    /\ \E body \in bodies :
          LET h == postEventsBody(body, clock, generatedIds) IN
          /\ req' = [req EXCEPT ![r] =
                       [@ EXCEPT !.route = "POST /events",
                                 !.body = body, !.now = clock,
                                 !.eventId = h.eventId,
                                 !.timestamp = h.timestamp,
                                 !.payloadJson = h.payloadJson,
                                 !.generated = h.generated,
                                 !.status = h.status,
                                 !.pc = IF h.status = 0 THEN "run" ELSE "done"]]
          /\ generatedIds' = IF h.generated THEN generatedIds + 1 ELSE generatedIds
    /\ UNCHANGED <<events, clock, API_KEY, jobs, R2>>

PostEvents(r) == PostEventsFrom(r, Bodies)

PostPayloads(r) == PostEventsFrom(r, PayloadBodies)

PostValidEvents(r) == PostEventsFrom(r, ValidBodies)

\* The handler's response once stmt.run() has settled with result; the
\* handler's timestamp and payloadJson end with it.
settle(r, result) ==
    LET status == postEventsStatus(result) IN
    req' = [req EXCEPT ![r] =
              [@ EXCEPT !.result = result, !.status = status, !.pc = "done",
                        !.respId = IF status = 201 THEN req[r].eventId ELSE NullText,
                        !.now = 0, !.timestamp = NullText, !.payloadJson = NullText]]

\* D1 executes the INSERT of request r, and the handler answers.  (The
\* handler's step after the await reads and writes nothing but the request:
\* it is taken together with the step of D1 that it follows.)
D1Run(r) ==
    /\ req[r].pc = "run"
    /\ LET d == D1InsertEvent(events, req[r].eventId, req[r].timestamp,
                              req[r].payloadJson)
       IN  /\ events' = d.table
           /\ settle(r, d.result)
    /\ UNCHANGED <<clock, generatedIds, API_KEY, jobs, R2>>

\* The ways run() can report an INSERT it did not execute: it rejects, or it
\* resolves with success false; a duplicate id is among the reasons when
\* the table has the id.
insertFailures(table, id) ==
    {RunThrow(MsgOther), RunUnsuccessful, RunFailed(MsgOther)}
       \cup (IF hasId(table, id) THEN {RunThrow(MsgUnique), RunFailed(MsgUnique)} ELSE {})

\* D1 fails to execute the INSERT of request r: run() rejects, or resolves
\* with success false; no row is written.
D1Fault(r) ==
    /\ req[r].pc = "run"
    /\ \E result \in insertFailures(events, req[r].eventId) : settle(r, result)
    /\ UNCHANGED <<events, clock, generatedIds, API_KEY, jobs, R2>>

\* GET /events that deletes the rows it has read.
GetEventsFromConsuming(r, queries) ==
    /\ canArrive(r)
    /\ \E q \in queries :
          LET v == getEventsValidate(q) IN
          IF v.status # 0
          THEN /\ req' = [req EXCEPT ![r] =
                            [@ EXCEPT !.route = "GET /events", !.query = q,
                                      !.status = v.status, !.pc = "done"]]
               /\ events' = events
          ELSE /\ req' = [req EXCEPT ![r] =
                            [@ EXCEPT !.route = "GET /events", !.query = q,
                                      !.status = 200, !.pc = "done",
                                      !.limit = v.limit]]
               /\ events' = SelectSeq(events, LAMBDA row : ~rowMatches(row, q))
    /\ UNCHANGED <<clock, generatedIds, API_KEY, jobs, R2>>

\* GET /events with parameters among queries: apiKeyAuth calls the handler;
\* validation, the SELECT and the response.
GetEventsFrom(r, queries) ==
    /\ canArrive(r)
    /\ \E authHeader \in AuthHeaders, apiKeyHeader \in ApiKeyHeaders :
          apiKeyAuth("/events", API_KEY, authHeader, apiKeyHeader)
    /\ \E q \in queries :
          LET v == getEventsValidate(q) IN
          IF v.status # 0
          THEN req' = [req EXCEPT ![r] =
                         [@ EXCEPT !.route = "GET /events", !.query = q,
                                   !.status = v.status, !.pc = "done"]]
          ELSE \E p \in DescOrders(SelectSeq(events, LAMBDA row : rowMatches(row, q))) :
                  LET rows == D1SelectEvents(events, q, v.limit, p) IN
                  req' = [req EXCEPT ![r] =
                            [@ EXCEPT !.route = "GET /events", !.query = q,
                                      !.status = 200, !.pc = "done",
                                      !.limit = v.limit,
                                      !.respEvents =
                                         [i \in 1..Len(rows) |-> decodeEvent(rows[i])]]]
    /\ UNCHANGED <<events, clock, generatedIds, API_KEY, jobs, R2>>

GetEvents(r) == GetEventsFrom(r, Queries)

\* The write path: every body, a store that works (an INSERT fails only on
\* a constraint of the schema).
Next ==
    \/ Tick
    \/ \E r \in Slots : Unauthorized(r) \/ PostEvents(r) \/ D1Run(r)

Spec == Init /\ [][Next]_vars

\* The write path with a store that may also fail for a reason of its own.
NextFault ==
    \/ Tick
    \/ \E r \in Slots : Unauthorized(r) \/ PostEvents(r) \/ D1Run(r) \/ D1Fault(r)

SpecFault == Init /\ [][NextFault]_vars

\* The write path for bodies that differ in payload and ts.
NextPayload ==
    \/ Tick
    \/ \E r \in Slots : Unauthorized(r) \/ PostPayloads(r) \/ D1Run(r)

SpecPayload == Init /\ [][NextPayload]_vars

\* Writes and reads: well-formed events are posted and queried.
NextRead ==
    \/ Tick
    \/ \E r \in Slots : Unauthorized(r) \/ PostValidEvents(r) \/ D1Run(r) \/ GetEvents(r)

SpecRead == Init /\ [][NextRead]_vars

(* ----------------------------- the read path --------------------------- *)

\* The instants at which the rows of a stored table were written, three
\* instants half a second apart, as the ts of the rows.
StoredInstants == {toISOString(500 * k) : k \in 0..2}

\* The tables that up to MaxRows POST /events requests without an id leave
\* behind: the i-th row has the i-th generated id, the ts its handler read
\* and a payload text among payloads.
StoredTables(payloads) ==
    UNION {[1..n -> StoredInstants \X payloads] : n \in 0..MaxRows}

tableOf(rows) ==
    [i \in 1..Len(rows) |-> [id |-> uuid(i), ts |-> rows[i][1], payload |-> rows[i][2]]]

\* Requests with filters: an id, and bounds that are instants.
FilterQueries ==
    [id : {NullText, uuid(1), uuid(2), <<"z">>},
     after : {NullText} \cup StoredInstants,
     before : {NullText} \cup StoredInstants,
     limit : {NullText}]

\* What a client may send as limit.
LimitParams ==
    {<<"1">>, <<"2">>, <<"5", "0", "0">>, <<"5", "0", "1">>, <<"1", "0", "0", "0", "0">>,
     <<"0">>, <<"-", "1">>, <<>>, <<"a", "b", "c">>, <<"1", ".", "5">>, <<"5", "a", "b", "c">>}

LimitQueries ==
    [id : {NullText}, after : {NullText, toISOString(0)}, before : {NullText},
     limit : LimitParams]

\* What a client may send as after or before, besides an instant: nothing
\* after the = sign, a word, a date in ISO 8601, a date with slashes.
IsoDay == <<"2", "0", "2", "4", "-", "0", "1", "-", "0", "1">>
SlashDay == <<"2", "0", "2", "4", "/", "0", "1", "/", "0", "1">>
TimeParams == {<<>>, <<"x">>, IsoDay, SlashDay}

TimeQueries ==
    [id : {NullText}, after : TimeParams, before : {NullText}, limit : {NullText}]
       \cup [id : {NullText}, after : {NullText}, before : TimeParams, limit : {NullText}]

\* A table is there, written earlier, and one request reads it: a GET is
\* one step (its only await is the read), so reads do not interleave.
InitQuery ==
    /\ events \in {tableOf(rows) : rows \in StoredTables({encodePayload(AnEvent)})}
    /\ clock = 500 * 2
    /\ generatedIds = Len(events)
    /\ API_KEY = TheKey
    /\ jobs = <<>>
    /\ R2 = {}
    /\ req = [r \in Slots |-> Idle]

NextQuery == GetEventsFrom(1, FilterQueries \cup LimitQueries \cup TimeQueries)

SpecQuery == InitQuery /\ [][NextQuery]_vars

\* Payload texts of rows that were not written by POST /events into a table
\* with the CHECK (json_valid(payload)) constraint: rows of a table created
\* without it.  A text cut short, and an empty text.
CutText == <<"{", "\"", "t", "\"", ":">>
LegacyPayloads == {encodePayload(AnEvent), CutText, <<>>}

\* A table with such rows is there, and one request reads it.
InitLegacy ==
    /\ events \in {tableOf(rows) : rows \in StoredTables(LegacyPayloads)}
    /\ clock = 500 * 2
    /\ generatedIds = Len(events)
    /\ API_KEY = TheKey
    /\ jobs = <<>>
    /\ R2 = {}
    /\ req = [r \in Slots |-> Idle]

NextLegacy ==
    GetEventsFrom(1, [id : {NullText, uuid(1)}, after : {NullText},
                      before : {NullText}, limit : {NullText}])

SpecLegacy == InitLegacy /\ [][NextLegacy]_vars

\* Payloads of every JSON type, nested ones, a string with characters that
\* are escaped, and a number literal beyond the range of a double.
RoundTripPayloads ==
    {JNull, JBool(FALSE), JBool(TRUE), JNum(0), JNum(12), JStr(<<>>),
     JStr(<<"a", "\"", "\\">>), AnEvent, JObj(<<>>),
     JArr(<<JNum(1), JNull, JObj(<< <<(<<"k">>), JArr(<<>>)>> >>)>>),
     JInfinity}

RoundTripBodies ==
    {bodyObject(Undefined, Undefined, payload) : payload \in RoundTripPayloads}

\* Events are posted without an id and read back by the generated id.
NextRoundTrip ==
    \E r \in Slots :
       \/ PostEventsFrom(r, RoundTripBodies)
       \/ D1Run(r)
       \/ GetEventsFrom(r, {[NoQuery EXCEPT !.id = uuid(k)] : k \in Slots})

SpecRoundTrip == Init /\ [][NextRoundTrip]_vars

(* -------------------------- POST /events/query ------------------------- *)

\* The route is documented (README, API table) and its handler is not in
\* index.ts: it is modelled from section 4.7 of the specification.

UpperCase == <<"A", "B", "C", "D", "E", "F", "G", "H", "I", "J", "K", "L", "M",
               "N", "O", "P", "Q", "R", "S", "T", "U", "V", "W", "X", "Y", "Z">>
LowerCase == <<"a", "b", "c", "d", "e", "f", "g", "h", "i", "j", "k", "l", "m",
               "n", "o", "p", "q", "r", "s", "t", "u", "v", "w", "x", "y", "z">>

\* The statement with its letters in lower case.
toLowerCase(text) ==
    [i \in 1..Len(text) |->
        IF \E k \in 1..Len(UpperCase) : UpperCase[k] = text[i]
        THEN LowerCase[CHOOSE k \in 1..Len(UpperCase) : UpperCase[k] = text[i]]
        ELSE text[i]]

\* word occurs in text, at any position.
includes(text, word) ==
    \E i \in 1..(Len(text) - Len(word) + 1) : SubSeq(text, i, i + Len(word) - 1) = word

ReadOnlyKeyword == <<"s", "e", "l", "e", "c", "t">>
MutatingKeywords ==
    {<<"i", "n", "s", "e", "r", "t">>,
     <<"u", "p", "d", "a", "t", "e">>,
     <<"d", "e", "l", "e", "t", "e">>,
     <<"d", "r", "o", "p">>,
     <<"a", "l", "t", "e", "r">>,
     <<"c", "r", "e", "a", "t", "e">>,
     <<"t", "r", "u", "n", "c", "a", "t", "e">>,
     <<"r", "e", "p", "l", "a", "c", "e">>}

\* The statement after trimming and case-normalizing.
normalizeSql(sql) == toLowerCase(trim(sql))

\* Mutant: only the first keyword of the statement is looked at.
queryIsAllowedByPrefix(sql) == startsWith(normalizeSql(sql), 1, ReadOnlyKeyword)

\* The policy: the normalized statement begins with the read-only keyword
\* and no mutating keyword occurs anywhere in it.
queryIsAllowed(sql) ==
    /\ startsWith(normalizeSql(sql), 1, ReadOnlyKeyword)
    /\ \A word \in MutatingKeywords : ~includes(normalizeSql(sql), word)

\* The events table after the store has executed the statement: the
\* statements of the model that drop the table or delete its rows leave it
\* without rows, a query leaves it as it is.
DropEvents == <<"d", "r", "o", "p", " ", "t", "a", "b", "l", "e", " ", "e", "v", "e", "n", "t", "s">>
DeleteEvents == <<"d", "e", "l", "e", "t", "e", " ", "f", "r", "o", "m", " ", "e", "v", "e", "n", "t", "s">>
rawQuery(table, sql) ==
    IF \/ includes(normalizeSql(sql), DropEvents)
       \/ includes(normalizeSql(sql), DeleteEvents)
    THEN <<>> ELSE table

\* Statements a client may send.
SelectAll ==
    <<"s", "e", "l", "e", "c", "t", " ", "*", " ", "f", "r", "o", "m", " ",
      "e", "v", "e", "n", "t", "s">>
SelectPadded ==
    <<" ", " ", "S", "E", "L", "E", "C", "T", " ", "i", "d", " ", "F", "R",
      "O", "M", " ", "e", "v", "e", "n", "t", "s", " ">>
SelectThenDrop ==
    <<"S", "E", "L", "E", "C", "T", " ", "1", ";", " ", "D", "R", "O", "P",
      " ", "T", "A", "B", "L", "E", " ", "e", "v", "e", "n", "t", "s">>
DropTable ==
    <<"d", "r", "o", "p", " ", "t", "a", "b", "l", "e", " ", "e", "v", "e",
      "n", "t", "s">>
DeleteAll ==
    <<"D", "e", "l", "e", "t", "e", " ", "f", "r", "o", "m", " ", "e", "v",
      "e", "n", "t", "s">>
SelectCreatedAt ==
    <<"s", "e", "l", "e", "c", "t", " ", "c", "r", "e", "a", "t", "e", "d",
      "_", "a", "t", " ", "f", "r", "o", "m", " ", "t">>
WithSelect ==
    <<"w", "i", "t", "h", " ", "x", " ", "a", "s", " ", "(", "s", "e", "l",
      "e", "c", "t", " ", "1", ")", " ", "s", "e", "l", "e", "c", "t", " ",
      "2">>

Statements ==
    {SelectAll, SelectPadded, SelectThenDrop, DropTable, DeleteAll, SelectCreatedAt,
     WithSelect, <<>>}

\* POST /events/query with a statement: apiKeyAuth calls the handler, which
\* answers 400 or has the store execute the statement and answers 200.
PostEventsQuery(r) ==
    /\ canArrive(r)
    /\ \E authHeader \in AuthHeaders, apiKeyHeader \in ApiKeyHeaders :
          apiKeyAuth("/events/query", API_KEY, authHeader, apiKeyHeader)
    /\ \E sql \in Statements :
          IF queryIsAllowed(sql)
          THEN /\ events' = rawQuery(events, sql)
               /\ req' = [req EXCEPT ![r] =
                            [@ EXCEPT !.route = "POST /events/query", !.sql = sql,
                                      !.result = RunOk, !.status = 200, !.pc = "done"]]
          ELSE /\ events' = events
               /\ req' = [req EXCEPT ![r] =
                            [@ EXCEPT !.route = "POST /events/query", !.sql = sql,
                                      !.status = 400, !.pc = "done"]]
    /\ UNCHANGED <<clock, generatedIds, API_KEY, jobs, R2>>

\* A table of up to MaxRows rows is there and statements are sent to the
\* query route.
InitSql ==
    /\ events \in {tableOf([i \in 1..n |-> <<toISOString(0), encodePayload(AnEvent)>>]) :
                      n \in 0..MaxRows}
    /\ clock = 0
    /\ generatedIds = Len(events)
    /\ API_KEY \in ApiKeys
    /\ jobs = <<>>
    /\ R2 = {}
    /\ req = [r \in Slots |-> Idle]

NextSql == \E r \in Slots : PostEventsQuery(r)

SpecSql == InitSql /\ [][NextSql]_vars

(* --------------------------- the middleware ---------------------------- *)

\* The routes requests are sent to, and the paths apiKeyAuth lets through
\* without a key.
DocsPaths == {"/docs", "/openapi.json"}

Targets ==
    {[method |-> "POST", path |-> "/events"], [method |-> "GET", path |-> "/events"],
     [method |-> "GET", path |-> "/docs"], [method |-> "GET", path |-> "/openapi.json"]}

\* A client sends request r: its method, path, Authorization header and
\* X-API-Key header are what apiKeyAuth and the router will see.
SendRequest(r) ==
    /\ canArrive(r)
    /\ req[r].path = "none"
    /\ \E target \in Targets, authHeader \in AuthHeaders, apiKeyHeader \in ApiKeyHeaders :
          req' = [req EXCEPT ![r] =
                    [@ EXCEPT !.method = target.method, !.path = target.path,
                              !.authHeader = authHeader,
                              !.apiKeyHeader = apiKeyHeader]]
    /\ UNCHANGED <<events, clock, generatedIds, API_KEY, jobs, R2>>

\* Request r has been sent and apiKeyAuth has not run for it.
inFlight(r) == canArrive(r) /\ req[r].path # "none"

\* apiKeyAuth calls next() for request r, sent to method and path.
admitted(r, method, path) ==
    /\ inFlight(r)
    /\ req[r].method = method /\ req[r].path = path
    /\ apiKeyAuth(req[r].path, API_KEY, req[r].authHeader, req[r].apiKeyHeader)

\* apiKeyAuth answers request r with 401 and does not call next().
RejectUnauthorized(r) ==
    /\ inFlight(r)
    /\ ~apiKeyAuth(req[r].path, API_KEY, req[r].authHeader, req[r].apiKeyHeader)
    /\ req' = [req EXCEPT ![r] = [@ EXCEPT !.pc = "done", !.status = 401]]
    /\ UNCHANGED <<events, clock, generatedIds, API_KEY, jobs, R2>>

\* The handlers of /openapi.json and /docs answer from the schema.
GetDocs(r) ==
    /\ \E path \in DocsPaths :
          /\ admitted(r, "GET", path)
          /\ req' = [req EXCEPT ![r] =
                       [@ EXCEPT !.route = IF path = "/docs" THEN "GET /docs"
                                           ELSE "GET /openapi.json",
                                 !.status = 200, !.pc = "done"]]
    /\ UNCHANGED <<events, clock, generatedIds, API_KEY, jobs, R2>>

AdmittedPostEvents(r) == admitted(r, "POST", "/events") /\ PostEventsFrom(r, ValidBodies)

AdmittedGetEvents(r) == admitted(r, "GET", "/events") /\ GetEventsFrom(r, {NoQuery})

\* Requests with and without keys, to the event routes and the docs routes.
NextAuth ==
    \E r \in Slots :
       \/ SendRequest(r)
       \/ RejectUnauthorized(r)
       \/ GetDocs(r)
       \/ AdmittedPostEvents(r)
       \/ AdmittedGetEvents(r)
       \/ D1Run(r)

SpecAuth == Init /\ [][NextAuth]_vars

(* ----------------------- other forms of an instant ---------------------- *)

\* Instants in forms that isIsoTimestamp accepts and toISOString does not
\* write: a date only (the instant 0 of the model), seconds without a
\* fraction (the instant of 1000 ms), and a numeric offset (01:00:00.500 at
\* +01:00, the instant of 500 ms).
SecondsForm ==
    <<"2", "0", "2", "4", "-", "0", "1", "-", "0", "1", "T",
      "0", "0", ":", "0", "0", ":", "0", "1", "Z">>

OffsetForm ==
    <<"2", "0", "2", "4", "-", "0", "1", "-", "0", "1", "T",
      "0", "1", ":", "0", "0", ":", "0", "0", ".", "5", "0", "0",
      "+", "0", "1", ":", "0", "0">>

InstantForms == {IsoDay, SecondsForm, OffsetForm, toISOString(500)}

FormQueries ==
    [id : {NullText}, after : InstantForms, before : {NullText}, limit : {NullText}]
       \cup [id : {NullText}, after : {NullText}, before : InstantForms, limit : {NullText}]

NextForms == GetEventsFrom(1, FormQueries)

\* A stored table is read with bounds written in several forms.
SpecForms == InitQuery /\ [][NextForms]_vars

(* ------------------------- POST /jobs, GET /runs ------------------------ *)

KeyRunId == <<"r", "u", "n", "_", "i", "d">>
KeyWorkflowId == <<"n", "8", "n", "_", "w", "o", "r", "k", "f", "l", "o", "w", "_", "i", "d">>
KeyExecutionId == <<"n", "8", "n", "_", "e", "x", "e", "c", "u", "t", "i", "o", "n", "_", "i", "d">>
KeyStatusCode == <<"n", "8", "n", "_", "s", "t", "a", "t", "u", "s", "_", "c", "o", "d", "e">>
KeyStatusMessage == <<"n", "8", "n", "_", "s", "t", "a", "t", "u", "s", "_", "m", "e", "s", "s", "a", "g", "e">>
KeyData == <<"d", "a", "t", "a">>
KeyMetadata == <<"m", "e", "t", "a", "d", "a", "t", "a">>

\* !x is false: x is not undefined, null, false, 0 or the empty string.
jsTruthy(x) ==
    CASE x.t = "str" -> Len(x.s) > 0
      [] x.t = "num" -> x.n # 0
      [] x.t = "bool" -> x.b
      [] x.t \in {"obj", "arr", "infinity"} -> TRUE
      [] OTHER -> FALSE

\* The required fields of a POST /jobs body are there.
jobIsValid(body) ==
    /\ jsTruthy(field(body, KeyRunId))
    /\ jsTruthy(field(body, KeyWorkflowId))
    /\ jsTruthy(field(body, KeyExecutionId))
    /\ field(body, KeyStatusCode).t \in {"num", "infinity"}
    /\ jsTruthy(field(body, KeyStatusMessage))

\* x is an object (or an array) that has a key: hasData, hasMetadata.
hasKeys(x) ==
    \/ x.t = "obj" /\ Len(x.m) > 0
    \/ x.t = "arr" /\ Len(x.a) > 0

hasData(body) == hasKeys(field(body, KeyData))

hasMetadata(body) == hasKeys(field(body, KeyMetadata))

\* `${x}` in a template literal: a string as it is.
templateText(x) == IF isString(x) THEN x.s ELSE JSONstringify(x)

ResultsPrefix == <<"r", "e", "s", "u", "l", "t", "s", "/">>
JsonSuffix == <<".", "j", "s", "o", "n">>

\* r2Key that leaves the timestamp out.
r2KeyOfUndated(body, timestamp) ==
    ResultsPrefix \o templateText(field(body, KeyRunId)) \o <<"/">>
       \o templateText(field(body, KeyWorkflowId)) \o <<"/">>
       \o templateText(field(body, KeyExecutionId)) \o JsonSuffix

\* r2Key: results/{run_id}/{n8n_workflow_id}/{n8n_execution_id}/{timestamp}.json
r2KeyOf(body, timestamp) ==
    ResultsPrefix \o templateText(field(body, KeyRunId)) \o <<"/">>
       \o templateText(field(body, KeyWorkflowId)) \o <<"/">>
       \o templateText(field(body, KeyExecutionId)) \o <<"/">>
       \o NatToText(timestamp) \o JsonSuffix

\* customMetadata: every value of metadata as a string.
customMetadataOf(body) ==
    IF ~hasMetadata(body) \/ field(body, KeyMetadata).t # "obj" THEN <<>>
    ELSE LET m == field(body, KeyMetadata).m IN
         [i \in 1..Len(m) |-> <<m[i][1], templateText(m[i][2])>>]

metadataJsonOf(body) ==
    IF hasMetadata(body) THEN JSONstringify(field(body, KeyMetadata)) ELSE NullText

StatusResultStored == JStr(<<"r", "e", "s", "u", "l", "t", "_", "s", "t", "o", "r", "e", "d">>)

\* R2.put(key, value, options): the object under key is replaced.
R2put(bucket, key, value, customMetadata) ==
    {o \in bucket : o.key # key}
       \cup {[key |-> key, value |-> value, customMetadata |-> customMetadata]}

\* The row INSERT INTO jobs appends: id is the AUTOINCREMENT key (created_at,
\* which no handler of the model reads, is left out).
jobRow(table, rec) ==
    [id |-> Len(table) + 1,
     run_id |-> field(rec.body, KeyRunId),
     n8n_workflow_id |-> field(rec.body, KeyWorkflowId),
     n8n_execution_id |-> field(rec.body, KeyExecutionId),
     n8n_status_code |-> rec.statusCode,
     n8n_status_message |-> rec.statusMessage,
     r2_pointer |-> rec.r2Key,
     metadata |-> rec.metadataJson]

\* POST /jobs that awaits stmt.run() before it has called R2.put.
PostJobsFromInsertFirst(r, bodies) ==
    /\ canArrive(r)
    /\ \E body \in bodies :
          req' = [req EXCEPT ![r] =
                    IF ~jobIsValid(body)
                    THEN [@ EXCEPT !.route = "POST /jobs", !.body = body,
                                   !.status = 400, !.pc = "done"]
                    ELSE [@ EXCEPT !.route = "POST /jobs", !.body = body,
                                   !.now = clock,
                                   !.r2Key = IF hasData(body) THEN r2KeyOf(body, clock)
                                             ELSE NullText,
                                   !.statusCode = field(body, KeyStatusCode),
                                   !.statusMessage = field(body, KeyStatusMessage),
                                   !.metadataJson = metadataJsonOf(body),
                                   !.pc = "insert"]]
    /\ UNCHANGED <<events, clock, generatedIds, API_KEY, jobs, R2>>

\* POST /jobs with a body among bodies: apiKeyAuth calls the handler, which
\* runs to the await of R2.put when there is data, to the await of
\* stmt.run() when there is none, or to the response of a body it rejects.
PostJobsFrom(r, bodies) ==
    /\ canArrive(r)
    /\ \E authHeader \in AuthHeaders, apiKeyHeader \in ApiKeyHeaders :
          apiKeyAuth("/jobs", API_KEY, authHeader, apiKeyHeader)
    /\ \E body \in bodies :
          req' = [req EXCEPT ![r] =
                    IF ~jobIsValid(body)
                    THEN [@ EXCEPT !.route = "POST /jobs", !.body = body,
                                   !.status = 400, !.pc = "done"]
                    ELSE IF hasData(body)
                    THEN [@ EXCEPT !.route = "POST /jobs", !.body = body,
                                   !.now = clock,
                                   !.r2Key = r2KeyOf(body, clock),
                                   !.customMetadata = customMetadataOf(body),
                                   !.dataJson = JSONstringify(field(body, KeyData)),
                                   !.statusCode = field(body, KeyStatusCode),
                                   !.statusMessage = field(body, KeyStatusMessage),
                                   !.pc = "put"]
                    ELSE [@ EXCEPT !.route = "POST /jobs", !.body = body,
                                   !.statusCode = field(body, KeyStatusCode),
                                   !.statusMessage = field(body, KeyStatusMessage),
                                   !.metadataJson = metadataJsonOf(body),
                                   !.pc = "insert"]]
    /\ UNCHANGED <<events, clock, generatedIds, API_KEY, jobs, R2>>

\* R2 stores the object of request r; the handler overrides the status,
\* prepares the INSERT and awaits stmt.run().
R2Put(r) ==
    /\ req[r].pc = "put"
    /\ R2' = R2put(R2, req[r].r2Key, req[r].dataJson, req[r].customMetadata)
    /\ req' = [req EXCEPT ![r] =
                 [@ EXCEPT !.statusCode = JNum(200),
                           !.statusMessage = StatusResultStored,
                           !.metadataJson = metadataJsonOf(req[r].body),
                           !.pc = "insert"]]
    /\ UNCHANGED <<events, clock, generatedIds, API_KEY, jobs>>

\* R2.put rejects: the catch block answers 500.
R2PutFault(r) ==
    /\ req[r].pc = "put"
    /\ req' = [req EXCEPT ![r] =
                 [@ EXCEPT !.result = RunThrow(MsgOther), !.status = 500,
                           !.pc = "done"]]
    /\ UNCHANGED <<events, clock, generatedIds, API_KEY, jobs, R2>>

\* D1 executes the INSERT INTO jobs of request r, and the handler answers
\* 201 with last_row_id and the pointer.
D1InsertJob(r) ==
    /\ req[r].pc = "insert"
    /\ jobs' = Append(jobs, jobRow(jobs, req[r]))
    /\ req' = [req EXCEPT ![r] =
                 [@ EXCEPT !.result = RunOk, !.status = 201, !.pc = "done",
                           !.lastRowId = Len(jobs) + 1]]
    /\ UNCHANGED <<events, clock, generatedIds, API_KEY, R2>>

\* stmt.run() rejects or resolves with success false: the row is not
\* inserted and the handler answers 500.
D1InsertJobFault(r) ==
    /\ req[r].pc = "insert"
    /\ \E result \in {RunThrow(MsgOther), RunUnsuccessful} :
          req' = [req EXCEPT ![r] =
                    [@ EXCEPT !.result = result, !.status = 500, !.pc = "done"]]
    /\ UNCHANGED <<events, clock, generatedIds, API_KEY, jobs, R2>>

\* GET /runs/:run_id: the rows of the run (the table is in the order of
\* created_at), or 500 when all() resolves with success false or rejects.
GetRuns(r) ==
    /\ canArrive(r)
    /\ \E authHeader \in AuthHeaders, apiKeyHeader \in ApiKeyHeaders :
          apiKeyAuth("/runs/r", API_KEY, authHeader, apiKeyHeader)
    /\ \E runId \in {JStr(<<"r">>)}, ok \in BOOLEAN :
          req' = [req EXCEPT ![r] =
                    IF ok
                    THEN [@ EXCEPT !.route = "GET /runs/:run_id", !.status = 200,
                                   !.result = RunOk, !.pc = "done",
                                   !.respRuns = SelectSeq(jobs, LAMBDA row : row.run_id = runId)]
                    ELSE [@ EXCEPT !.route = "GET /runs/:run_id", !.status = 500,
                                   !.result = RunUnsuccessful, !.pc = "done"]]
    /\ UNCHANGED <<events, clock, generatedIds, API_KEY, jobs, R2>>

\* A body of POST /jobs.
jobBody(runId, code, data, metadata) ==
    JObj(<< <<KeyRunId, runId>>, <<KeyWorkflowId, JStr(<<"w">>)>>,
            <<KeyExecutionId, JStr(<<"e">>)>>, <<KeyStatusCode, code>>,
            <<KeyStatusMessage, JStr(<<"m">>)>>, <<KeyData, data>>,
            <<KeyMetadata, metadata>> >>)

OtherData == JObj(<< <<(<<"n">>), JNum(42)>> >>)

\* The bodies sent to POST /jobs: data absent, empty, and two objects, one
\* of them with metadata; a body without run_id and one whose status code
\* is a string.
JobBodies ==
    {jobBody(JStr(<<"r">>), JNum(201), Undefined, Undefined),
     jobBody(JStr(<<"r">>), JNum(201), JObj(<<>>), Undefined),
     jobBody(JStr(<<"r">>), JNum(201), AnEvent, AnEvent),
     jobBody(JStr(<<"r">>), JNum(201), OtherData, Undefined),
     jobBody(Undefined, JNum(201), AnEvent, Undefined),
     jobBody(JStr(<<"r">>), JStr(<<"2">>), AnEvent, Undefined)}

PostJobs(r) == PostJobsFrom(r, JobBodies)

\* The ledger routes: entries are posted with and without data, R2 and D1
\* may fail, and the runs are read.
NextJobs ==
    \/ Tick
    \/ \E r \in Slots :
          \/ PostJobs(r) \/ R2Put(r) \/ R2PutFault(r)
          \/ D1InsertJob(r) \/ D1InsertJobFault(r) \/ GetRuns(r)

InitJobs ==
    /\ events = <<>>
    /\ clock = 0
    /\ generatedIds = 0
    /\ API_KEY = TheKey
    /\ jobs = <<>>
    /\ R2 = {}
    /\ req = [r \in Slots |-> Idle]

SpecJobs == InitJobs /\ [][NextJobs]_vars

(* ------------------------ payloads with a data field -------------------- *)

KeyType == <<"t", "y", "p", "e">>
KeyDataPointer == <<"d", "a", "t", "a", "_", "p", "o", "i", "n", "t", "e", "r">>

\* The payload of the handler's test: a type and a data object.
DataPayload ==
    JObj(<< <<KeyType, JStr(<<"w">>)>>,
            <<KeyData, JObj(<< <<(<<"f">>), JStr(<<"b">>)>>, <<(<<"n">>), JNum(42)>> >>)>> >>)

DataBodies ==
    {bodyObject(id, Undefined, payload) :
        id \in {Undefined, JStr(<<"a">>)}, payload \in {DataPayload, AnEvent}}

\* Events with and without a data field are posted.
NextData ==
    \/ Tick
    \/ \E r \in Slots : Unauthorized(r) \/ PostEventsFrom(r, DataBodies) \/ D1Run(r)

SpecData == Init /\ [][NextData]_vars

(* --------------------------- reads that fail ---------------------------- *)

\* GET /events whose SELECT fails: all() resolves with success false or
\* rejects, and the handler answers 500.
GetEventsFault(r, queries) ==
    /\ canArrive(r)
    /\ \E authHeader \in AuthHeaders, apiKeyHeader \in ApiKeyHeaders :
          apiKeyAuth("/events", API_KEY, authHeader, apiKeyHeader)
    /\ \E q \in queries, result \in {RunUnsuccessful, RunThrow(MsgOther)} :
          /\ getEventsValidate(q).status = 0
          /\ req' = [req EXCEPT ![r] =
                       [@ EXCEPT !.route = "GET /events", !.query = q,
                                 !.result = result, !.status = 500, !.pc = "done"]]
    /\ UNCHANGED <<events, clock, generatedIds, API_KEY, jobs, R2>>

\* An object of the bucket and rows at successive instants, written
\* earlier.
StoredBlob ==
    [key |-> ResultsPrefix \o <<"1">> \o JsonSuffix,
     value |-> encodePayload(AnEvent), customMetadata |-> <<>>]

InitStored ==
    /\ events \in {tableOf([i \in 1..n |-> <<toISOString(500 * (i - 1)),
                                             encodePayload(AnEvent)>>]) :
                      n \in 0..MaxRows}
    /\ clock = 500 * MaxRows
    /\ generatedIds = Len(events)
    /\ API_KEY = TheKey
    /\ jobs = <<>>
    /\ R2 = {StoredBlob}
    /\ req = [r \in Slots |-> Idle]

StoredQueries ==
    {NoQuery, [NoQuery EXCEPT !.after = toISOString(0)],
     [NoQuery EXCEPT !.limit = <<"1">>], [NoQuery EXCEPT !.limit = <<"0">>],
     [NoQuery EXCEPT !.before = <<"x">>], [NoQuery EXCEPT !.id = uuid(1)]}

\* Reads of a stored table that succeed, are rejected, or fail.
NextStored ==
    \E r \in Slots :
       GetEventsFrom(r, StoredQueries) \/ GetEventsFault(r, StoredQueries)

SpecStored == InitStored /\ [][NextStored]_vars

(* ------------------------------- claims -------------------------------- *)

\* The positions of the rows of table that have the id.
rowsWithId(table, id) == {i \in 1..Len(table) : table[i].id = id}

\* raw is x with white space before and after it, and x neither starts nor
\* ends with white space.
StripsTo(raw, x) ==
    /\ x # <<>> => ~isWhitespace(x[1]) /\ ~isWhitespace(x[Len(x)])
    /\ \E i \in 0..Len(raw) :
          /\ i + Len(x) <= Len(raw)
          /\ SubSeq(raw, i + 1, i + Len(x)) = x
          /\ \A k \in 1..Len(raw) : (k <= i \/ k > i + Len(x)) => isWhitespace(raw[k])

\* The id and the payload of the body a request record was sent with.
idOf(rec) == field(rec.body, KeyId)
payloadOf(rec) == field(rec.body, KeyPayload)
tsOf(rec) == field(rec.body, KeyTs)

isPost(rec) == rec.route = "POST /events"
isGet(rec) == rec.route = "GET /events"

\* The request record is a POST /events that carries an id that trims to x.
carriesId(rec, x) == isPost(rec) /\ isString(idOf(rec)) /\ StripsTo(idOf(rec).s, x)

\* Request r is answered in this step.
answeredNow(r) == req[r].pc # "done" /\ req'[r].pc = "done"

\* C1 as stated: once a POST /events with id X has been answered 201, every
\* later POST /events whose id trims to X is answered 409 and adds no row.
C1_Original ==
    [][\A r1, r2 \in Slots :
          ( /\ r1 # r2
            /\ req[r1].pc = "done" /\ req[r1].status = 201
            /\ answeredNow(r2)
            /\ carriesId(req'[r2], req[r1].respId) )
          => req'[r2].status = 409 /\ events' = events]_vars

\* C1 amended: once a POST /events with id X has been answered 201, a later
\* POST /events whose id trims to X adds no row and is never answered 201:
\* it is answered 409 when its body has a payload and 400 when it has none.
C1_DuplicateRejected ==
    [][\A r1, r2 \in Slots :
          ( /\ r1 # r2
            /\ req[r1].pc = "done" /\ req[r1].status = 201
            /\ answeredNow(r2)
            /\ carriesId(req'[r2], req[r1].respId) )
          => /\ events' = events
             /\ req'[r2].status = IF payloadOf(req'[r2]) = Undefined THEN 400 ELSE 409]_vars

\* A duplicate that differs from the stored id in white space only has been
\* answered 409, and another request holds the 201.
C1_Witness ==
    \E r1, r2 \in Slots :
       /\ r1 < r2
       /\ req[r1].pc = "done" /\ req[r1].status = 201 /\ req[r1].respId = <<"a">>
       /\ req[r2].pc = "done" /\ req[r2].status = 409
       /\ idOf(req[r2]) = JStr(<<" ", "a", "\t">>)
       /\ Len(events) = 1

\* C2 as stated: of the POST /events requests that carry the same
\* caller-supplied id and are handled concurrently, one is answered 201 and
\* every other one 409: a request answered while another request with the
\* same id is in flight gets one of these two answers.
C2_Original ==
    [][\A r1, r2 \in Slots :
          ( /\ r1 # r2
            /\ req[r1].pc = "run" /\ isString(idOf(req[r1]))
            /\ answeredNow(r2)
            /\ isPost(req'[r2]) /\ idOf(req'[r2]) = idOf(req[r1]) )
          => req'[r2].status \in {201, 409}]_vars

\* The requests that carry a payload and an id that trims to x.
contenders(x) == {r \in Slots : carriesId(req[r], x) /\ payloadOf(req[r]) # Undefined}

\* C2 amended: of the POST /events requests that carry a payload and ids that
\* trim to the same id, however their steps interleave, at most one is
\* answered 201 and the table has at most one row for the id; an answered one
\* is answered 201 or 409, and when all are answered exactly one of them has
\* the 201 and the table has exactly one row for the id.
C2_OneWinner ==
    \A r0 \in Slots :
       LET x == req[r0].eventId
           G == contenders(x)
           winners == {r \in G : req[r].pc = "done" /\ req[r].status = 201}
       IN  (r0 \in G /\ Cardinality(G) >= 2)
           => /\ Cardinality(winners) <= 1
              /\ Cardinality(rowsWithId(events, x)) = Cardinality(winners)
              /\ \A r \in G : req[r].pc = "done" => req[r].status \in {201, 409}
              /\ (\A r \in G : req[r].pc = "done") => Cardinality(winners) = 1

\* Two requests with the same id are in flight together, and the one that
\* arrived later has won the insert while the earlier one still waits.
C2_Witness ==
    \E r1, r2 \in Slots :
       /\ r1 < r2
       /\ r1 \in contenders(<<"a">>) /\ r2 \in contenders(<<"a">>)
       /\ req[r1].pc = "run"
       /\ req[r2].pc = "done" /\ req[r2].status = 201
       /\ Cardinality(rowsWithId(events, <<"a">>)) = 1

\* C3: the events table is append-only: whatever request is handled, every
\* row present before the step is present, unchanged and at its place, after
\* it.
C3_AppendOnly ==
    [][/\ Len(events) <= Len(events')
       /\ SubSeq(events', 1, Len(events)) = events]_vars

\* A row is stored, a second insert for its id has been rejected, and the
\* row is still the only one.
C3_Witness ==
    /\ Len(events) = 1
    /\ \E r \in Slots : isPost(req[r]) /\ req[r].pc = "done" /\ req[r].status = 409
    /\ \E r \in Slots : isPost(req[r]) /\ req[r].pc = "done" /\ req[r].status = 201

\* C4: every stored row has a non-null ts and a non-null payload text,
\* whatever JSON value the payload was: the handler never binds a null ts or
\* payload to the insert, and a request with a payload, null, false, 0 and ""
\* included, gets as far as the insert statement.
C4_RowsNonNull ==
    /\ \A i \in 1..Len(events) :
          events[i].ts # NullText /\ events[i].payload # NullText
    /\ \A r \in Slots :
          req[r].pc = "run" => req[r].timestamp # NullText /\ req[r].payloadJson # NullText
    /\ \A r \in Slots :
          (isPost(req[r]) /\ payloadOf(req[r]) # Undefined /\ carriesId(req[r], <<"a">>))
          => (req[r].pc = "run" \/ req[r].result # NotRun)

\* A row whose payload was the JSON value null is stored, with the text null.
C4_Witness ==
    \E r \in Slots :
       /\ isPost(req[r]) /\ req[r].pc = "done" /\ req[r].status = 201
       /\ payloadOf(req[r]) = JNull
       /\ \E i \in 1..Len(events) :
             /\ events[i].id = req[r].respId
             /\ events[i].payload = <<"n", "u", "l", "l">>
             /\ events[i].ts # NullText

\* The request record is an answered POST /events that had a payload and no id.
answeredWithoutId(rec) ==
    /\ isPost(rec) /\ rec.pc = "done"
    /\ idOf(rec) = Undefined /\ payloadOf(rec) # Undefined

\* C5: a POST /events with a payload and no id is answered 201 with a
\* non-empty generated id and exactly one row with that id is in the table;
\* a GET /events?id=<that id> handled after the answer returns 200 with
\* exactly that event.
C5_GeneratedId ==
    [][/\ \A r \in Slots :
             answeredWithoutId(req'[r])
             => /\ req'[r].status = 201
                /\ req'[r].generated
                /\ req'[r].respId # NullText /\ Len(req'[r].respId) > 0
                /\ Cardinality(rowsWithId(events', req'[r].respId)) = 1
       /\ \A p, g \in Slots :
             ( /\ answeredWithoutId(req[p])
               /\ answeredNow(g) /\ isGet(req'[g])
               /\ req'[g].query.id = req[p].respId
               /\ req'[g].query.after = NullText /\ req'[g].query.before = NullText
               /\ req'[g].query.limit \in {NullText, <<"1">>} )
             => /\ req'[g].status = 200
                /\ Len(req'[g].respEvents) = 1
                /\ req'[g].respEvents[1].id = req[p].respId
                /\ req'[g].respEvents[1].payload = payloadOf(req[p])
                /\ \E i \in rowsWithId(events, req[p].respId) :
                      req'[g].respEvents[1].ts = events[i].ts]_vars

\* A POST without an id has been answered 201 and a GET for the generated id
\* has returned the one event.
C5_Witness ==
    \E p, g \in Slots :
       /\ answeredWithoutId(req[p]) /\ req[p].status = 201
       /\ isGet(req[g]) /\ req[g].pc = "done" /\ req[g].status = 200
       /\ req[g].query.id = req[p].respId
       /\ Len(req[g].respEvents) = 1
       /\ req[g].respEvents[1].id = req[p].respId

\* C6: the id in a 201 response is the id of the one row the request
\* inserted; a supplied id is stored and returned with its leading and
\* trailing white space removed, so that no two requests whose ids trim to
\* the same id are both answered 201.
C6_ResponseIdIsRowId ==
    /\ \A r \in Slots :
          (isPost(req[r]) /\ req[r].pc = "done" /\ req[r].status = 201)
          => /\ Cardinality(rowsWithId(events, req[r].respId)) = 1
             /\ req[r].respId = req[r].eventId
             /\ idOf(req[r]) # Undefined
                => isString(idOf(req[r])) /\ StripsTo(idOf(req[r]).s, req[r].respId)
    /\ \A r1, r2 \in Slots :
          ( /\ r1 # r2
            /\ isPost(req[r1]) /\ req[r1].pc = "done" /\ req[r1].status = 201
            /\ isPost(req[r2]) /\ req[r2].pc = "done" /\ req[r2].status = 201 )
          => req[r1].respId # req[r2].respId

\* An id sent with white space around it has been stored and returned
\* trimmed.
C6_Witness ==
    \E r \in Slots :
       /\ isPost(req[r]) /\ req[r].pc = "done" /\ req[r].status = 201
       /\ idOf(req[r]) = JStr(<<" ", "a", "\t">>)
       /\ req[r].respId = <<"a">>
       /\ Cardinality(rowsWithId(events, <<"a">>)) = 1

\* The id field is present and is not a string, or is a string of white
\* space only.
idUnusable(id) ==
    /\ id # Undefined
    /\ isString(id) => \A k \in 1..Len(id.s) : isWhitespace(id.s[k])

\* C7: a POST /events whose body has an id that is not a string, or is blank
\* after trimming, is answered 400 without an insert being issued, and an id
\* is generated only for a body that has no id field.
C7_InvalidIdRejected ==
    /\ \A r \in Slots :
          (isPost(req[r]) /\ req[r].body.t = "obj" /\ idUnusable(idOf(req[r])))
          => /\ req[r].pc = "done" /\ req[r].status = 400
             /\ req[r].result = NotRun /\ req[r].eventId = NullText
             /\ ~req[r].generated
    /\ \A r \in Slots :
          (isPost(req[r]) /\ req[r].generated) => idOf(req[r]) = Undefined
    /\ \A i \in 1..Len(events) :
          /\ Len(events[i].id) > 0
          /\ \E r \in Slots : isPost(req[r]) /\ ~idUnusable(idOf(req[r]))
                              /\ req[r].eventId = events[i].id

\* A blank id and an id that is a number have both been answered 400, and
\* the table is empty.
C7_Witness ==
    /\ events = <<>>
    /\ \E r1, r2 \in Slots :
          /\ isPost(req[r1]) /\ idOf(req[r1]) = JStr(<<" ">>)
          /\ payloadOf(req[r1]) # Undefined /\ req[r1].status = 400
          /\ isPost(req[r2]) /\ idOf(req[r2]) = JNum(5)
          /\ payloadOf(req[r2]) # Undefined /\ req[r2].status = 400

\* C8 as stated: a POST /events whose parsed body has no payload field is
\* answered 400 and no insert is issued.
C8_MissingPayloadRejected ==
    \A r \in Slots :
       ( /\ isPost(req[r]) /\ req[r].pc = "done"
         /\ req[r].body # Malformed
         /\ payloadOf(req[r]) = Undefined )
       => req[r].status = 400 /\ req[r].result = NotRun

\* The instant the server clock showed when it was read.
serverInstants == {toISOString(t) : t \in 0..clock}

\* C9: the ts bound to the insert is the server clock read while the request
\* is handled, and so is the ts of every row; a ts field in the body changes
\* nothing: two requests in flight whose bodies differ only in ts and whose
\* clock readings agree bind the same ts and the same payload text.
C9_ServerTimestamp ==
    /\ \A r \in Slots :
          req[r].pc = "run"
          => req[r].timestamp = toISOString(req[r].now) /\ req[r].now <= clock
    /\ \A i \in 1..Len(events) :
          events[i].ts \in serverInstants /\ events[i].ts # ClientTs
    /\ \A r1, r2 \in Slots :
          ( /\ req[r1].pc = "run" /\ req[r2].pc = "run"
            /\ idOf(req[r1]) = idOf(req[r2])
            /\ payloadOf(req[r1]) = payloadOf(req[r2])
            /\ req[r1].now = req[r2].now )
          => /\ req[r1].timestamp = req[r2].timestamp
             /\ req[r1].payloadJson = req[r2].payloadJson
             /\ idOf(req[r1]) # Undefined => req[r1].eventId = req[r2].eventId

\* Two requests are in flight at the same clock reading, one with a ts in
\* its body and one without, and both bind the server's ts.
C9_Witness ==
    \E r1, r2 \in Slots :
       /\ req[r1].pc = "run" /\ req[r2].pc = "run"
       /\ tsOf(req[r1]) = JStr(ClientTs) /\ tsOf(req[r2]) = Undefined
       /\ idOf(req[r1]) = idOf(req[r2]) /\ payloadOf(req[r1]) = payloadOf(req[r2])
       /\ req[r1].now = req[r2].now
       /\ req[r1].timestamp = req[r2].timestamp

\* C10 as stated: a POST /events whose body is not parseable JSON is
\* answered 400 and no insert is issued.
C10_MalformedBodyRejected ==
    \A r \in Slots :
       (isPost(req[r]) /\ req[r].pc = "done" /\ req[r].body = Malformed)
       => req[r].status = 400 /\ req[r].result = NotRun

\* C11 as stated: in POST /events a failed insert is never answered 201; it
\* is answered 409 when the failure is a duplicate-id conflict, whether
\* run() threw it or reported it in an unsuccessful result, and 500 when it
\* is any other failure.
C11_StoreFailureStatus ==
    \A r \in Slots :
       (isPost(req[r]) /\ req[r].pc = "done" /\ req[r].result \notin {NotRun, RunOk})
       => req[r].status = IF req[r].result.message = MsgUnique THEN 409 ELSE 500

\* The number of half seconds after the first instant at which ts lies.
instantOf(ts) == CHOOSE k \in 0..2 : toISOString(500 * k) = ts

\* The positions of the stored rows that have the id q asks for, if it asks
\* for one, and lie strictly after and strictly before the instants q gives.
selected(q) ==
    {i \in 1..Len(events) :
        /\ q.id # NullText => events[i].id = q.id
        /\ q.after # NullText => instantOf(events[i].ts) > instantOf(q.after)
        /\ q.before # NullText => instantOf(events[i].ts) < instantOf(q.before)}

\* The request record is a GET /events that has been answered.
answeredGet(rec) == isGet(rec) /\ rec.pc = "done"

\* C12: with a limit that does not truncate, GET /events returns exactly
\* the stored events that have the id asked for and lie strictly after the
\* instant after and strictly before the instant before, each once and with
\* its own ts: both bounds are exclusive and the filters are conjoined.
C12_FiltersExact ==
    \A r \in Slots :
       (answeredGet(req[r]) /\ req[r].query \in FilterQueries)
       => /\ req[r].status = 200
          /\ Len(req[r].respEvents) = Cardinality(selected(req[r].query))
          /\ \A i \in selected(req[r].query) :
                \E k \in 1..Len(req[r].respEvents) :
                   /\ req[r].respEvents[k].id = events[i].id
                   /\ req[r].respEvents[k].ts = events[i].ts

\* Events at three instants t1 < t2 < t3 are stored, and GET /events with
\* after = t1 alone has returned the two events at t2 and t3.
C12_Witness ==
    \E r \in Slots :
       /\ answeredGet(req[r]) /\ req[r].status = 200
       /\ Len(events) = 3 /\ {events[i].ts : i \in 1..3} = StoredInstants
       /\ req[r].query = [NoQuery EXCEPT !.after = toISOString(0)]
       /\ {req[r].respEvents[k].ts : k \in 1..Len(req[r].respEvents)}
             = {toISOString(500), toISOString(1000)}
       /\ Len(req[r].respEvents) = 2

\* The text is a decimal numeral: digits only, at least one.
isNumeral(text) ==
    /\ text # NullText /\ Len(text) > 0
    /\ \A k \in 1..Len(text) : text[k] \in {"0", "1", "2", "3", "4", "5", "6", "7", "8", "9"}

\* The number a decimal numeral denotes.
RECURSIVE numeral(_)
numeral(text) ==
    IF text = <<>> THEN 0
    ELSE 10 * numeral(SubSeq(text, 1, Len(text) - 1))
         + (CHOOSE d \in 0..9 : NatToText(d) = <<text[Len(text)]>>)

\* The text is the numeral of a positive integer.
isPositiveInteger(text) == isNumeral(text) /\ numeral(text) > 0

\* The limit the claim gives a request with the parameter: 100 when it is
\* absent, and the smaller of the parameter and 500.
effectiveLimit(text) ==
    IF text = NullText THEN 100
    ELSE IF numeral(text) < 500 THEN numeral(text) ELSE 500

\* C13: a GET /events without a limit, or with a limit that is a positive
\* integer, however large, is answered 200 (its other parameters being
\* valid); the limit bound to the SELECT is 100 when the parameter is absent
\* and min(limit, 500) otherwise, and the response has no more events than
\* that.
C13_LimitClamped ==
    \A r \in Slots :
       ( /\ answeredGet(req[r])
         /\ req[r].query \in FilterQueries \cup LimitQueries
         /\ req[r].query.limit = NullText \/ isPositiveInteger(req[r].query.limit) )
       => /\ req[r].status = 200
          /\ req[r].limit = effectiveLimit(req[r].query.limit)
          /\ Len(req[r].respEvents) <= effectiveLimit(req[r].query.limit)
          /\ Len(req[r].respEvents) <= Len(events)

\* A GET /events with limit=10000 has been answered 200, with the limit 500
\* bound to its SELECT.
C13_Witness ==
    \E r \in Slots :
       /\ answeredGet(req[r]) /\ req[r].status = 200
       /\ req[r].query.limit = <<"1", "0", "0", "0", "0">>
       /\ req[r].limit = 500
       /\ Len(events) = 3 /\ Len(req[r].respEvents) = 3

\* C14 as stated: a GET /events whose limit parameter is present and is not
\* the numeral of a positive integer is answered 400, and no SELECT is
\* issued for it.
C14_BadLimitRejected ==
    \A r \in Slots :
       ( /\ answeredGet(req[r])
         /\ req[r].query.limit # NullText
         /\ ~isPositiveInteger(req[r].query.limit) )
       => req[r].status = 400 /\ req[r].limit = 0 /\ req[r].respEvents = <<>>

\* The parameter is present and is not a timestamp in ISO 8601.
notIso8601(param) == param # NullText /\ ~isDateTimeString(param)

\* C15 as stated: a GET /events whose after or before parameter is present
\* and is not a parseable ISO-8601 timestamp is answered 400, and no SELECT
\* compares a ts with it.
C15_BadTimestampRejected ==
    \A r \in Slots :
       ( /\ answeredGet(req[r])
         /\ notIso8601(req[r].query.after) \/ notIso8601(req[r].query.before) )
       => req[r].status = 400 /\ req[r].limit = 0 /\ req[r].respEvents = <<>>

\* The ids of the events of a response.
returnedIds(rec) == {rec.respEvents[k].id : k \in 1..Len(rec.respEvents)}

\* C16: the events of every 200 response of GET /events are in descending
\* order of ts; they are distinct stored rows that match the filters, as
\* many as the limit allows, and when more rows match than the limit allows
\* no row left out has a ts later than a row returned.
C16_NewestFirst ==
    \A r \in Slots :
       (answeredGet(req[r]) /\ req[r].status = 200)
       => LET resp == req[r].respEvents
              q == req[r].query
          IN  /\ \A k, j \in 1..Len(resp) :
                    k < j => instantOf(resp[k].ts) >= instantOf(resp[j].ts)
              /\ q \in FilterQueries \cup LimitQueries
                 => /\ Cardinality(returnedIds(req[r])) = Len(resp)
                    /\ returnedIds(req[r]) \subseteq {events[i].id : i \in selected(q)}
                    /\ Len(resp) = IF req[r].limit < Cardinality(selected(q))
                                   THEN req[r].limit ELSE Cardinality(selected(q))
                    /\ \A i \in selected(q) : \A k \in 1..Len(resp) :
                          events[i].id \notin returnedIds(req[r])
                          => instantOf(events[i].ts) <= instantOf(resp[k].ts)

\* Three events at three instants are stored, and GET /events with limit=2
\* has returned the latest and then the middle one.
C16_Witness ==
    \E r \in Slots :
       /\ answeredGet(req[r]) /\ req[r].status = 200
       /\ Len(events) = 3 /\ {events[i].ts : i \in 1..3} = StoredInstants
       /\ req[r].query = [NoQuery EXCEPT !.limit = <<"2">>]
       /\ Len(req[r].respEvents) = 2
       /\ req[r].respEvents[1].ts = toISOString(1000)
       /\ req[r].respEvents[2].ts = toISOString(500)

\* C17 as stated: GET /events is answered 200 whatever the stored payload
\* texts are; the event of a row whose payload text is not valid JSON has
\* the raw stored text as its payload, and the events of the other rows
\* have the value their text denotes.
C17_CorruptPayloadFallback ==
    \A r \in Slots :
       answeredGet(req[r])
       => /\ req[r].status = 200
          /\ \A k \in 1..Len(req[r].respEvents) :
                \E i \in 1..Len(events) :
                   /\ events[i].id = req[r].respEvents[k].id
                   /\ req[r].respEvents[k].payload =
                         IF events[i].payload = encodePayload(AnEvent)
                         THEN AnEvent ELSE JStr(events[i].payload)

\* C18 as stated: the payload that GET /events?id= returns for an event is
\* the JSON value that the POST /events answered 201 with that id was sent
\* as payload.
C18_PayloadRoundTrip ==
    \A p, g \in Slots :
       ( /\ isPost(req[p]) /\ req[p].pc = "done" /\ req[p].status = 201
         /\ answeredGet(req[g]) /\ req[g].status = 200
         /\ req[g].query.id = req[p].respId
         /\ Len(req[g].respEvents) > 0 )
       => /\ Len(req[g].respEvents) = 1
          /\ req[g].respEvents[1].id = req[p].respId
          /\ req[g].respEvents[1].payload = payloadOf(req[p])

\* The statements of the model that begin with select, whatever the case
\* and the white space around them, and contain no mutating keyword.
ReadOnlyStatements == {SelectAll, SelectPadded}

\* C19: a request to POST /events/query never changes the events table; its
\* statement reaches the store only if it is a read-only statement, and
\* every other statement, one that hides DROP TABLE events behind a SELECT
\* included, is answered 400 without reaching the store.
C19_QueryReadOnly ==
    [][\A r \in Slots :
          (answeredNow(r) /\ req'[r].route = "POST /events/query")
          => /\ events' = events
             /\ req'[r].result # NotRun => req'[r].sql \in ReadOnlyStatements
             /\ req'[r].sql \notin ReadOnlyStatements
                => req'[r].status = 400 /\ req'[r].result = NotRun
             /\ req'[r].sql \in ReadOnlyStatements
                => req'[r].status = 200 /\ req'[r].result = RunOk]_vars

\* A SELECT followed by DROP TABLE events has been answered 400, a padded
\* upper-case SELECT has been executed, and the rows are still there.
C19_Witness ==
    /\ Len(events) > 0
    /\ \E r1, r2 \in Slots :
          /\ req[r1].route = "POST /events/query" /\ req[r1].sql = SelectThenDrop
          /\ req[r1].status = 400 /\ req[r1].result = NotRun
          /\ req[r2].route = "POST /events/query" /\ req[r2].sql = SelectPadded
          /\ req[r2].status = 200 /\ req[r2].result = RunOk

\* The request carries the key: as a Bearer token or in X-API-Key.
carriesKey(rec, key) == rec.authHeader = BearerPrefix \o key \/ rec.apiKeyHeader = key

\* The request was sent to a route other than the docs routes.
sentToGuardedRoute(rec) == rec.path \notin {"none"} \cup DocsPaths

\* C20: when an API key is configured, a request to a route other than
\* /docs and /openapi.json that carries no key, or only a key different
\* from the configured one, is answered 401 and nothing else; its route
\* handler never runs, so that it reads nothing from the store and the
\* step that answers it leaves the store as it was.
C20_KeylessRejected ==
    [][\A r \in Slots :
          (/\ API_KEY # NullText
           /\ sentToGuardedRoute(req'[r])
           /\ ~carriesKey(req'[r], API_KEY))
          => /\ req'[r].pc \in {"idle", "done"}
             /\ req'[r].pc = "done" => req'[r].status = 401
             /\ req'[r].route = "none"
             /\ req'[r].result = NotRun /\ req'[r].eventId = NullText
             /\ req'[r].respEvents = <<>> /\ req'[r].respId = NullText
             /\ answeredNow(r) => /\ events' = events /\ generatedIds' = generatedIds
                                  /\ jobs' = jobs /\ R2' = R2]_vars

\* With a key configured and an event stored by a request that had the
\* key, a POST /events with another key has been answered 401.
C20_Witness ==
    /\ API_KEY = TheKey
    /\ Len(events) > 0
    /\ \E r \in Slots :
          /\ req[r].method = "POST" /\ req[r].path = "/events"
          /\ req[r].authHeader = BearerPrefix \o <<"x">>
          /\ req[r].apiKeyHeader = NullText
          /\ req[r].pc = "done" /\ req[r].status = 401

\* Request r has been answered by the handler of the route it was sent to.
handledByItsRoute(rec) ==
    /\ rec.pc = "done"
    /\ rec.status # 401
    /\ rec.route = IF rec.method = "POST" THEN "POST /events"
                   ELSE IF rec.path = "/events" THEN "GET /events"
                   ELSE IF rec.path = "/docs" THEN "GET /docs"
                   ELSE "GET /openapi.json"

\* C21: when no API key is configured no request is answered 401 and every
\* answered request has been answered by its route handler, whatever
\* headers it carries; a request to /docs or /openapi.json is answered by
\* its handler without a key also when an API key is configured.
C21_OpenWithoutKey ==
    \A r \in Slots :
       (req[r].path # "none" /\ req[r].pc # "idle")
       => /\ API_KEY = NullText
             => req[r].status # 401 /\ (req[r].pc = "done" => handledByItsRoute(req[r]))
          /\ req[r].path \in DocsPaths
             => handledByItsRoute(req[r]) /\ req[r].status = 200

\* With no key configured, a POST /events that carries a Bearer token has
\* been answered 201 and a request to /docs without headers 200.
C21_Witness ==
    /\ API_KEY = NullText
    /\ \E r1, r2 \in Slots :
          /\ req[r1].method = "POST" /\ req[r1].path = "/events"
          /\ req[r1].authHeader = BearerPrefix \o <<"x">>
          /\ req[r1].pc = "done" /\ req[r1].status = 201
          /\ req[r2].path = "/docs"
          /\ req[r2].authHeader = NullText /\ req[r2].apiKeyHeader = NullText
          /\ req[r2].pc = "done" /\ req[r2].status = 200

\* The routes the documents call legacy.
DeprecatedRoutes == {"POST /jobs", "GET /runs/:run_id"}

\* C22: every request to a deprecated route (/jobs, /runs/*) is answered
\* 410 Gone, and no such request changes the store or the blob bucket: the
\* jobs table and the bucket stay as they were.
C22_DeprecatedGone ==
    /\ \A r \in Slots :
          (req[r].route \in DeprecatedRoutes /\ req[r].pc = "done")
          => req[r].status = 410
    /\ jobs = <<>>
    /\ R2 = {}

\* The stored payload of the row is the decoded object without its data
\* field and with a data_pointer to an object of the bucket whose value is
\* the serialization of data.
offloaded(row, payload) ==
    LET stored == JSONparse(row.payload).val
        pointer == field(stored, KeyDataPointer)
    IN  /\ field(stored, KeyData) = Undefined
        /\ field(stored, KeyType) = field(payload, KeyType)
        /\ isString(pointer)
        /\ \E o \in R2 : /\ o.key = pointer.s
                         /\ o.value = JSONstringify(field(payload, KeyData))

\* C23: a POST /events whose payload is an object with a data field is
\* answered 201 with its id after exactly one row was inserted, and the
\* payload of that row has a data_pointer to the serialized data in the
\* blob bucket in place of the data field.
C23_DataOffloaded ==
    \A r \in Slots :
       (/\ isPost(req[r]) /\ req[r].pc = "done" /\ req[r].status = 201
        /\ field(payloadOf(req[r]), KeyData) # Undefined)
       => /\ Cardinality(rowsWithId(events, req[r].respId)) = 1
          /\ \A i \in rowsWithId(events, req[r].respId) :
                offloaded(events[i], payloadOf(req[r]))

\* C24: the step that answers a POST /events with 201 appends one row, the
\* row of that request, to the events table, and the step that answers it
\* with any other status leaves the table as it was; the table changes in
\* no other step; an answered request does nothing more, so that its
\* handler has issued at most one INSERT.
C24_OneRowPerCreated ==
    [][/\ \A r \in Slots :
             (answeredNow(r) /\ isPost(req'[r]))
             => IF req'[r].status = 201
                THEN /\ Len(events') = Len(events) + 1
                     /\ SubSeq(events', 1, Len(events)) = events
                     /\ events'[Len(events')].id = req'[r].respId
                ELSE events' = events
       /\ events' # events
          => \E r \in Slots :
                answeredNow(r) /\ isPost(req'[r]) /\ req'[r].status = 201
       /\ \A r \in Slots :
             /\ req[r].pc = "done" => req'[r] = req[r]
             /\ req[r].pc = "run" => req'[r].pc \in {"run", "done"}]_vars

\* One POST /events has been answered 201 and another one, whose INSERT
\* failed, 500 or 409: the table has the row of the first.
C24_Witness ==
    /\ Len(events) = 1
    /\ \E r1, r2 \in Slots :
          /\ isPost(req[r1]) /\ req[r1].pc = "done" /\ req[r1].status = 201
          /\ events[1].id = req[r1].respId
          /\ isPost(req[r2]) /\ req[r2].pc = "done" /\ req[r2].status \in {409, 500}
          /\ req[r2].result # NotRun

isPostJobs(rec) == rec.route = "POST /jobs"

\* The data of the request is a non-empty object.
dataOf(rec) == field(rec.body, KeyData)

carriesData(rec) == dataOf(rec).t = "obj" /\ dataOf(rec).m # <<>>

\* results/<run_id>/<workflow_id>/<execution_id>/<ms>.json for the ids of
\* the request.
resultKey(rec, ms) ==
    <<"r", "e", "s", "u", "l", "t", "s", "/">>
       \o field(rec.body, KeyRunId).s \o <<"/">>
       \o field(rec.body, KeyWorkflowId).s \o <<"/">>
       \o field(rec.body, KeyExecutionId).s \o <<"/">>
       \o NatToText(ms) \o <<".", "j", "s", "o", "n">>

\* C25: the step that answers a valid POST /jobs with 201 appends one row.
\* When data is a non-empty object the row has an r2_pointer of the form
\* results/<run_id>/<workflow_id>/<execution_id>/<timestamp>.json, a blob
\* is in the bucket under that key, and the row has status 200 and
\* result_stored whatever status was supplied; when data is absent or
\* empty the row has a null r2_pointer and the supplied status code and
\* message, and the request never writes to the bucket.
C25_JobRow ==
    [][/\ \A r \in Slots :
             (answeredNow(r) /\ isPostJobs(req'[r]) /\ req'[r].status = 201)
             => LET row == jobs'[Len(jobs')] IN
                /\ Len(jobs') = Len(jobs) + 1
                /\ SubSeq(jobs', 1, Len(jobs)) = jobs
                /\ row.id = req'[r].lastRowId
                /\ IF carriesData(req'[r])
                   THEN /\ \E ms \in 0..clock : row.r2_pointer = resultKey(req'[r], ms)
                        /\ \E o \in R2' : o.key = row.r2_pointer
                        /\ row.n8n_status_code = JNum(200)
                        /\ row.n8n_status_message = StatusResultStored
                   ELSE /\ row.r2_pointer = NullText
                        /\ row.n8n_status_code = field(req'[r].body, KeyStatusCode)
                        /\ row.n8n_status_message = field(req'[r].body, KeyStatusMessage)
       /\ R2' # R2
          => \E r \in Slots :
                isPostJobs(req'[r]) /\ carriesData(req'[r]) /\ req[r].pc = "put"]_vars

\* Two entries have been stored: one with data, whose row points to the
\* blob and has status 200 although 201 was supplied, and one with empty
\* data, whose row has no pointer and status 201.
C25_Witness ==
    /\ Len(jobs) = 2
    /\ Cardinality(R2) = 1
    /\ \E r1, r2 \in Slots, i1, i2 \in 1..2 :
          /\ isPostJobs(req[r1]) /\ req[r1].status = 201 /\ carriesData(req[r1])
          /\ req[r1].lastRowId = i1
          /\ jobs[i1].r2_pointer # NullText /\ jobs[i1].n8n_status_code = JNum(200)
          /\ field(req[r1].body, KeyStatusCode) = JNum(201)
          /\ isPostJobs(req[r2]) /\ req[r2].status = 201
          /\ dataOf(req[r2]) = JObj(<<>>)
          /\ req[r2].lastRowId = i2
          /\ jobs[i2].r2_pointer = NullText /\ jobs[i2].n8n_status_code = JNum(201)

\* C28: every jobs row with a non-null r2_pointer refers to a key that has
\* been written to the blob bucket, since POST /jobs writes the blob before
\* it inserts the row; and a POST /jobs whose insert fails after the blob
\* write is answered 500.
C28_PointerHasBlob ==
    /\ \A i \in 1..Len(jobs) :
          jobs[i].r2_pointer # NullText => \E o \in R2 : o.key = jobs[i].r2_pointer
    /\ \A r \in Slots :
          (/\ isPostJobs(req[r]) /\ req[r].pc = "done" /\ req[r].r2Key # NullText
           /\ req[r].result # RunOk)
          => req[r].status = 500

\* A row points to its blob, and a second blob, written by a request whose
\* insert failed and that was answered 500, has no row.
C28_Witness ==
    /\ \E i \in 1..Len(jobs) : jobs[i].r2_pointer # NullText
    /\ \E o \in R2 : \A i \in 1..Len(jobs) : jobs[i].r2_pointer # o.key
    /\ \E r \in Slots :
          /\ isPostJobs(req[r]) /\ req[r].status = 500
          /\ req[r].result \in {RunThrow(MsgOther), RunUnsuccessful}
          /\ \E o \in R2 : o.key = req[r].r2Key
          /\ \A i \in 1..Len(jobs) : jobs[i].r2_pointer # req[r].r2Key

\* C29: for every jobs row with a non-null r2_pointer, the blob stored
\* under that key is the serialized data of the request that inserted the
\* row.
C29_BlobOfItsRequest ==
    \A r \in Slots :
       (isPostJobs(req[r]) /\ req[r].pc = "done" /\ req[r].status = 201
        /\ jobs[req[r].lastRowId].r2_pointer # NullText)
       => \E o \in R2 :
             /\ o.key = jobs[req[r].lastRowId].r2_pointer
             /\ o.value = JSONstringify(dataOf(req[r]))

\* The milliseconds after 2024-01-01T00:00:00Z of the instant that a date
\* of that day, or a date-time of it with Z or a numeric offset, denotes.
millisOf(value) ==
    LET n == Len(value)
        hasZone == n > 16 /\ value[n - 5] \in {"+", "-"}
        offset == IF hasZone
                  THEN (IF value[n - 5] = "+" THEN 1 ELSE -1)
                          * (60 * number2(value, n - 4) + number2(value, n - 1))
                  ELSE 0
        hours == IF n >= 16 THEN number2(value, 12) ELSE 0
        minutes == IF n >= 16 THEN number2(value, 15) ELSE 0
        seconds == IF n >= 19 /\ value[17] = ":" THEN number2(value, 18) ELSE 0
        fraction == IF n >= 23 /\ value[20] = "."
                    THEN 100 * digitValue(value[21]) + number2(value, 22)
                    ELSE 0
    IN  ((60 * hours + minutes - offset) * 60 + seconds) * 1000 + fraction

\* The stored rows that lie strictly after and strictly before the
\* instants that the bounds of q denote.
selectedByInstant(q) ==
    {i \in 1..Len(events) :
        /\ q.after # NullText => millisOf(events[i].ts) > millisOf(q.after)
        /\ q.before # NullText => millisOf(events[i].ts) < millisOf(q.before)}

\* C26: for an after or a before that GET /events accepts, in the stored
\* form or in another form of ISO 8601 (a date only, seconds without a
\* fraction, a numeric offset), the returned events are exactly the stored
\* events whose instant is strictly later, or strictly earlier, than the
\* instant the value denotes.
C26_BoundsByInstant ==
    \A r \in Slots :
       (answeredGet(req[r]) /\ req[r].query \in FormQueries)
       => /\ req[r].status = 200
          /\ {req[r].respEvents[k].id : k \in 1..Len(req[r].respEvents)}
                = {events[i].id : i \in selectedByInstant(req[r].query)}

\* C27: the step in which a GET /events is answered, with 200, 400 or 500
\* and whatever its parameters, leaves the events table, the jobs table
\* and the blob bucket as they were.
C27_GetReadOnly ==
    [][\A r \in Slots :
          (answeredNow(r) /\ isGet(req'[r]))
          => /\ req'[r].status \in {200, 400, 500}
             /\ events' = events /\ jobs' = jobs /\ R2' = R2]_vars

\* With rows and a blob stored, one GET /events has returned rows with 200
\* and another one has been answered 500.
C27_Witness ==
    /\ Len(events) > 0 /\ R2 # {}
    /\ \E r1, r2 \in Slots :
          /\ answeredGet(req[r1]) /\ req[r1].status = 200
          /\ Len(req[r1].respEvents) > 0
          /\ answeredGet(req[r2]) /\ req[r2].status = 500

\* C30: with an API key configured, a request that has the configured key
\* in its X-API-Key header is not answered 401, whatever its Authorization
\* header is.
C30_ApiKeyHeaderAdmits ==
    \A r \in Slots :
       (/\ API_KEY # NullText
        /\ req[r].path # "none" /\ req[r].pc = "done"
        /\ req[r].apiKeyHeader = API_KEY)
       => req[r].status # 401

====
